---- MODULE Spec2Model ----
(***************************************************************************)
(* State-machine model of the OPC UA client node (opcua-client.js): the    *)
(* connection supervisor, the command queue and dispatcher, and the        *)
(* subscription / monitored-item registry.  Asynchronous handlers are      *)
(* split at their awaits; the protocol engine (node-opcua) is the          *)
(* environment that resolves the awaited calls and raises events.          *)
(***************************************************************************)
EXTENDS Integers, Sequences, FiniteSets, TLC

\* ---------------------------------------------------------------- bounds
MaxMsgs     == 2      \* input messages delivered to the node
MaxClients  == 2      \* OPCUAClient objects created
MaxSessions == 2      \* ClientSession objects created
MaxSubs     == 2      \* ClientSubscription objects created
MaxItems    == 2      \* ClientMonitoredItem objects created
MaxSpawn    == 2      \* connectAndCreateSession calls not owned by a command
MaxLoss     == 1      \* transport losses raised by the environment
MaxNotif    == 2      \* change notifications raised by the environment

Keys == {"X", "Y"}

\* ------------------------------------------------------------- processes
MsgIds   == 1..MaxMsgs
Ctor     == 0
CloseId  == MaxMsgs + 1
SpawnIds == (MaxMsgs + 2)..(MaxMsgs + 1 + MaxSpawn)
Procs    == 0..(MaxMsgs + 1 + MaxSpawn)

ControlActions == {"connect", "disconnect", "reconnect"}
SubMutating    == {"subscribe", "monitor", "events", "unsubscribe", "deletesubscription"}

VARIABLES
  connectOnStart,   \* node.connectOnStart (configuration)
  client,           \* node.client        (0 = null)
  session,          \* node.session       (0 = null)
  subscription,     \* node.subscription  (0 = null)
  monitoredItems,   \* node.monitoredItems: key -> monitored item (0 = absent)
  cmdQueue,         \* node.cmdQueue: sequence of message ids
  currentStatus,    \* node.currentStatus
  hasConnected,     \* node.hasConnected
  isClosing,        \* node.isClosing
  cl,               \* OPCUAClient objects
  sess,             \* ClientSession objects
  subs,             \* ClientSubscription objects
  items,            \* ClientMonitoredItem objects
  msgs,             \* messages delivered so far, by arrival
  pc,               \* position of every handler invocation
  arg,              \* object an invocation is awaiting a call on
  pos,              \* index of the item an unsubscribe loop is at
  micro,            \* continuations waiting as microtasks, in order
  replayBuf,        \* messages replayCommandQueue still has to route
  cb,               \* completion callback of every message
  log,              \* observed events, in order: routeAction calls of
                    \* non-control actions (from the input handler or from
                    \* the replay), 'connection_reestablished' events,
                    \* change notifications sent on output 1
  lossLeft,         \* transport losses the environment may still raise
  call,             \* a library or handler computation under study: its
                    \* name and arguments (NoCall in the connection model)
  ret               \* what that computation produced (<<>> before it ran)

NoCall == [fn |-> "none"]

nodeVars == <<connectOnStart, client, session, subscription, monitoredItems,
              cmdQueue, currentStatus, hasConnected, isClosing>>
libVars  == <<cl, sess, subs, items>>
runVars  == <<msgs, pc, arg, pos, micro, replayBuf>>
obsVars  == <<cb, log, lossLeft>>
fnVars   == <<call, ret>>
vars     == <<nodeVars, libVars, runVars, obsVars, fnVars>>

\* --------------------------------------------------------------- helpers
NoItems == [k \in Keys |-> 0]

\* number of objects of a kind created so far
Used(f, n) == Cardinality({i \in 1..n : f[i].st # "none"})

\* the macrotask queue is served only when no synchronous loop and no
\* microtask is pending
Idle == micro = <<>> /\ replayBuf = <<>>

\* a session the handlers may use
Usable(s) == s # 0 /\ ~sess[s].rec

\* a monitored item that delivers notifications
Live(i) ==
  /\ items[i].st = "live"
  /\ subs[items[i].su].st = "live"
  /\ sess[subs[items[i].su].se].st = "open"
  /\ ~sess[subs[items[i].su].se].rec

\* sessions created and not yet closed
OpenSessions == {s \in 1..MaxSessions : sess[s].st = "open"}

\* the events of one kind in the log
Events(kinds) == SelectSeq(log, LAMBDA e : e.ev \in kinds)
Routes   == Events({"input", "replay"})
Notified == Events({"changed"})

\* first unused object / process
FreeIn(f, n) == CHOOSE i \in 1..n : f[i].st = "none" /\ \A j \in 1..(i - 1) : f[j].st # "none"
FreeSpawn    == CHOOSE p \in SpawnIds : pc[p] = "none" /\ \A q \in SpawnIds : q < p => pc[q] # "none"
HasSpawn     == \E p \in SpawnIds : pc[p] = "none"

\* the node as its constructor leaves it
Constructed ==
  /\ connectOnStart \in BOOLEAN
  /\ client = 0
  /\ session = 0
  /\ subscription = 0
  /\ monitoredItems = NoItems
  /\ cmdQueue = <<>>
  /\ currentStatus = ""
  /\ hasConnected = FALSE
  /\ isClosing = FALSE
  /\ cl    = [c \in 1..MaxClients  |-> [st |-> "none", lis |-> FALSE]]
  /\ sess  = [s \in 1..MaxSessions |-> [st |-> "none", cl |-> 0, rec |-> FALSE]]
  /\ subs  = [u \in 1..MaxSubs     |-> [st |-> "none", se |-> 0]]
  /\ items = [i \in 1..MaxItems    |-> [st |-> "none", key |-> "X", su |-> 0]]
  /\ msgs = <<>>
  /\ pc  = [p \in Procs |-> IF p = Ctor THEN "cert" ELSE "none"]
  /\ arg = [p \in Procs |-> 0]
  /\ pos = [p \in Procs |-> 0]
  /\ micro = <<>>
  /\ replayBuf = <<>>
  /\ cb = [m \in MsgIds |-> "none"]
  /\ log = <<>>
  /\ lossLeft = MaxLoss

Init == Constructed /\ call = NoCall /\ ret = <<>>

\* ------------------------------------------------------------ dispatcher
\* shouldQueueMessage, the lazy-connect branch: queue and start a connect
LazyConnect(action) ==
  /\ action \notin ControlActions
  /\ session = 0 /\ client # 0 /\ ~connectOnStart /\ ~hasConnected

\* shouldQueueMessage without its last test, `node.session.isReconnecting`
ShouldQueueMessageNoReconnecting(action) ==
  IF action \in ControlActions THEN FALSE
  ELSE IF LazyConnect(action) THEN TRUE
  ELSE IF session = 0 THEN TRUE
  ELSE FALSE

\* shouldQueueMessage without its first test, the bypass of the control actions
ShouldQueueMessageNoBypass(action) ==
  IF session = 0 THEN TRUE
  ELSE IF sess[session].rec THEN TRUE
  ELSE FALSE

\* shouldQueueMessage: the value it returns
ShouldQueueMessage(action) ==
  IF action \in ControlActions THEN FALSE
  ELSE IF LazyConnect(action) THEN TRUE
  ELSE IF session = 0 THEN TRUE
  ELSE IF sess[session].rec THEN TRUE
  ELSE FALSE

\* assertSession: the value it returns
AssertSession == session # 0 /\ ~sess[session].rec

\* a handler that ends before any await: done() is called with `result`
Finish(m, result, status) ==
  /\ pc' = [pc EXCEPT ![m] = "done"]
  /\ cb' = [cb EXCEPT ![m] = result]
  /\ currentStatus' = status
  /\ UNCHANGED <<client, session, subscription, monitoredItems, hasConnected,
                 cl, sess, subs, items, arg, pos, micro>>

\* actionRead (and every handler of the same shape: assertSession, the item
\* check, one awaited session call)
StartRead(m, its) ==
  IF ~AssertSession THEN Finish(m, "nosession", "no session")
  ELSE IF Len(its) = 0 THEN Finish(m, "empty", currentStatus)
  ELSE /\ pc' = [pc EXCEPT ![m] = "op"]
       /\ arg' = [arg EXCEPT ![m] = session]
       /\ currentStatus' = "reading"
       /\ UNCHANGED <<client, session, subscription, monitoredItems, hasConnected,
                      cl, sess, subs, items, pos, micro, cb>>

\* the awaited session.read settles
ReadSettles(m, ok) ==
  /\ Idle /\ pc[m] = "op"
  /\ ok => sess[arg[m]].st = "open" /\ ~sess[arg[m]].rec
  /\ pc' = [pc EXCEPT ![m] = "done"]
  /\ arg' = [arg EXCEPT ![m] = 0]
  /\ cb' = [cb EXCEPT ![m] = IF ok THEN "ok" ELSE "error"]
  /\ currentStatus' = IF ok THEN "read done" ELSE "read error"
  /\ UNCHANGED <<call, ret, connectOnStart, client, session, subscription, monitoredItems,
                 cmdQueue, hasConnected, isClosing, libVars, msgs, pos,
                 micro, replayBuf, log, lossLeft>>

\* an ensureSubscription that creates a subscription at every call
EnsureSubscriptionCreates == FreeIn(subs, MaxSubs)

\* ensureSubscription, called with a usable session
EnsureSubscription ==
  IF subscription # 0 THEN subscription ELSE FreeIn(subs, MaxSubs)

\* actionSubscribe up to `await ensureSubscription(msg)`
StartSubscribe(m, its) ==
  IF ~AssertSession THEN Finish(m, "nosession", "no session")
  ELSE IF Len(its) = 0 THEN Finish(m, "empty", currentStatus)
  ELSE /\ subscription' = EnsureSubscription
       /\ subs' = IF subscription # 0 THEN subs
                  ELSE [subs EXCEPT ![EnsureSubscription] = [st |-> "live", se |-> session]]
       /\ pc' = [pc EXCEPT ![m] = "subscribe2"]
       /\ micro' = Append(micro, m)
       /\ UNCHANGED <<client, session, monitoredItems, currentStatus, hasConnected,
                      cl, sess, items, arg, pos, cb>>


\* ClientMonitoredItem.create for each key of `its`, from the first free object on
NewItems(its, su) ==
  [i \in 1..MaxItems |->
     IF items[i].st = "none" /\ i - Used(items, MaxItems) \in 1..Len(its)
     THEN [st |-> "live", key |-> its[i - Used(items, MaxItems)], su |-> su]
     ELSE items[i]]

\* node.monitoredItems.set(item.nodeId, monitoredItem) of the single-item branch;
\* subscribeMultipleItems registers nothing
Registered(its) ==
  IF Len(its) = 1
  THEN [monitoredItems EXCEPT ![its[1]] = Used(items, MaxItems) + 1]
  ELSE monitoredItems

\* actionSubscribe after `await ensureSubscription(msg)`
SubscribeResumes(m) ==
  /\ replayBuf = <<>> /\ micro # <<>> /\ Head(micro) = m /\ pc[m] = "subscribe2"
  /\ micro' = Tail(micro)
  /\ pc' = [pc EXCEPT ![m] = "done"]
  /\ IF subscription = 0
     THEN /\ cb' = [cb EXCEPT ![m] = "error"]
          /\ currentStatus' = "subscription error"
          /\ UNCHANGED <<items, monitoredItems>>
     ELSE /\ items' = NewItems(msgs[m].items, subscription)
          /\ monitoredItems' = Registered(msgs[m].items)
          /\ cb' = [cb EXCEPT ![m] = "ok"]
          /\ currentStatus' = "subscribed"
  /\ UNCHANGED <<call, ret, connectOnStart, client, session, subscription, cmdQueue,
                 hasConnected, isClosing, cl, sess, subs, msgs, arg, pos,
                 replayBuf, log, lossLeft>>

\* the index of the next item of `its`, after `from`, that is registered
NextRegistered(its, from, reg) ==
  IF \E j \in (from + 1)..Len(its) : reg[its[j]] # 0
  THEN CHOOSE j \in (from + 1)..Len(its) :
         reg[its[j]] # 0 /\ \A h \in (from + 1)..(j - 1) : reg[its[h]] = 0
  ELSE 0

\* actionUnsubscribe from item `from` on: await the next terminate, or finish
UnsubscribeFrom(m, its, from, reg) ==
  LET j == NextRegistered(its, from, reg) IN
  /\ monitoredItems' = reg
  /\ IF j # 0
     THEN /\ pc' = [pc EXCEPT ![m] = "unsubscribe"]
          /\ arg' = [arg EXCEPT ![m] = reg[its[j]]]
          /\ pos' = [pos EXCEPT ![m] = j]
          /\ UNCHANGED <<cb, currentStatus>>
     ELSE /\ pc' = [pc EXCEPT ![m] = "done"]
          /\ cb' = [cb EXCEPT ![m] = "ok"]
          /\ currentStatus' = "subscribed"
          /\ arg' = [arg EXCEPT ![m] = 0]
          /\ pos' = [pos EXCEPT ![m] = 0]

\* actionUnsubscribe up to its first await
StartUnsubscribe(m, its) ==
  /\ UnsubscribeFrom(m, its, 0, monitoredItems)
  /\ UNCHANGED <<client, session, subscription, hasConnected, cl, sess, subs,
                 items, micro>>

\* the awaited monitoredItem.terminate() settles; its catch warns
UnsubscribeSettles(m, ok) ==
  /\ Idle /\ pc[m] = "unsubscribe"
  /\ items' = IF ok THEN [items EXCEPT ![arg[m]].st = "dead"] ELSE items
  /\ UnsubscribeFrom(m, msgs[m].items, pos[m],
                     IF ok THEN [monitoredItems EXCEPT ![msgs[m].items[pos[m]]] = 0]
                     ELSE monitoredItems)
  /\ log' = IF ok THEN log
            ELSE Append(log, [ev |-> "warn", m |-> m,
                              key |-> msgs[m].items[pos[m]], ready |-> TRUE])
  /\ UNCHANGED <<call, ret, connectOnStart, client, session, subscription, cmdQueue,
                 hasConnected, isClosing, cl, sess, subs, msgs, micro,
                 replayBuf, lossLeft>>

\* actionDeleteSubscription up to its first await
StartDeleteSubscription(m) ==
  IF subscription # 0
  THEN /\ pc' = [pc EXCEPT ![m] = "deletesubscription"]
       /\ arg' = [arg EXCEPT ![m] = subscription]
       /\ UNCHANGED <<client, session, subscription, monitoredItems, currentStatus,
                      hasConnected, cl, sess, subs, items, pos, micro, cb>>
  ELSE Finish(m, "ok", "session active")

\* a terminateSubscription that keeps the subscription and the registry when
\* the terminate call fails
DeleteSubscriptionSettlesKeepsOnError(m, ok) ==
  /\ Idle /\ pc[m] = "deletesubscription"
  /\ subs' = IF ok THEN [subs EXCEPT ![arg[m]].st = "dead"] ELSE subs
  /\ subscription' = IF ok THEN 0 ELSE subscription
  /\ monitoredItems' = IF ok THEN NoItems ELSE monitoredItems
  /\ pc' = [pc EXCEPT ![m] = "done"]
  /\ arg' = [arg EXCEPT ![m] = 0]
  /\ cb' = [cb EXCEPT ![m] = "ok"]
  /\ currentStatus' = "session active"
  /\ UNCHANGED <<call, ret, connectOnStart, client, session, cmdQueue, hasConnected,
                 isClosing, cl, sess, items, msgs, pos, micro, replayBuf,
                 log, lossLeft>>

\* the awaited subscription.terminate() of actionDeleteSubscription settles: the
\* 'terminated' handler when the call succeeded, then terminateSubscription's
\* two assignments
DeleteSubscriptionSettles(m, ok) ==
  /\ Idle /\ pc[m] = "deletesubscription"
  /\ subs' = IF ok THEN [subs EXCEPT ![arg[m]].st = "dead"] ELSE subs
  /\ subscription' = 0
  /\ monitoredItems' = NoItems
  /\ pc' = [pc EXCEPT ![m] = "done"]
  /\ arg' = [arg EXCEPT ![m] = 0]
  /\ cb' = [cb EXCEPT ![m] = "ok"]
  /\ currentStatus' = "session active"
  /\ UNCHANGED <<call, ret, connectOnStart, client, session, cmdQueue, hasConnected,
                 isClosing, cl, sess, items, msgs, pos, micro, replayBuf,
                 log, lossLeft>>


\* ---------------------------------------------------- connection control
\* the handler a process runs
Kind(p) ==
  IF p = Ctor THEN "ctor"
  ELSE IF p = CloseId THEN "close"
  ELSE IF p \in SpawnIds THEN "spawn"
  ELSE msgs[p].action

\* terminateSubscription (1), closeSession (2), disconnectClient (3): the first
\* of them, from `from` on, that has a call to await; 4 when none has
NextStage(from, su, se, c) ==
  IF from <= 1 /\ su # 0 THEN 1
  ELSE IF from <= 2 /\ se # 0 THEN 2
  ELSE IF from <= 3 /\ c # 0 THEN 3
  ELSE 4

\* a 'session_closed' handler that nulls the session only
SessionClosedHandlerKeepsRegistry(fire) ==
  IF fire /\ ~isClosing
  THEN [se |-> 0, su |-> subscription, reg |-> monitoredItems,
        st |-> "session closed"]
  ELSE [se |-> session, su |-> subscription, reg |-> monitoredItems,
        st |-> currentStatus]

\* the 'session_closed' handler of connectAndCreateSession
SessionClosedHandler(fire) ==
  IF fire /\ ~isClosing
  THEN [se |-> 0, su |-> 0, reg |-> NoItems, st |-> "session closed"]
  ELSE [se |-> session, su |-> subscription, reg |-> monitoredItems,
        st |-> currentStatus]

\* actionDisconnect, actionReconnect, actionConnect and the close handler run
\* on from stage `from` with the node's fields as given, up to the next await
Proceed(p, kind, from, su, reg, se, c, clx, st) ==
  LET stage == NextStage(from, su, se, c)
      after == stage = 4
      fresh == after /\ kind \in {"connect", "reconnect"}
  IN
  /\ subscription' = su
  /\ monitoredItems' = reg
  /\ session' = IF fresh THEN 0 ELSE se
  /\ client' = IF fresh THEN 0 ELSE c
  /\ cl' = IF stage = 3 THEN [clx EXCEPT ![c].lis = FALSE] ELSE clx
  /\ hasConnected' = IF after /\ kind = "reconnect" THEN FALSE ELSE hasConnected
  /\ currentStatus' = IF after /\ kind = "disconnect" THEN "disconnected" ELSE st
  /\ pc' = [pc EXCEPT ![p] =
              CASE stage = 1 -> "terminate"
                [] stage = 2 -> "close"
                [] stage = 3 -> "disconnect"
                [] OTHER     -> IF fresh THEN "cert" ELSE "done"]
  /\ arg' = [arg EXCEPT ![p] =
              CASE stage = 1 -> su
                [] stage = 2 -> se
                [] stage = 3 -> c
                [] OTHER     -> 0]
  /\ cb' = IF after /\ kind = "disconnect" THEN [cb EXCEPT ![p] = "ok"] ELSE cb

\* actionDisconnect and actionReconnect up to their first await
StartTeardown(m, kind) ==
  /\ Proceed(m, kind, 1, subscription, monitoredItems, session, client, cl,
             currentStatus)
  /\ UNCHANGED <<sess, subs, items, pos, micro>>

\* actionConnect up to its first await
StartConnect(m) ==
  /\ Proceed(m, "connect", 3, subscription, monitoredItems, session, client, cl,
             currentStatus)
  /\ UNCHANGED <<sess, subs, items, pos, micro>>

\* the close handler up to its first await
NodeClose ==
  /\ Idle /\ pc[CloseId] = "none"
  /\ isClosing' = TRUE
  /\ Proceed(CloseId, "close", 1, subscription, monitoredItems, session, client,
             cl, currentStatus)
  /\ UNCHANGED <<call, ret, connectOnStart, cmdQueue, sess, subs, items, msgs, pos, micro,
                 replayBuf, log, lossLeft>>

\* terminateSubscription after its await: the 'terminated' handler when the
\* call succeeded, then the two assignments; the caller runs on
TerminateSettles(p, ok) ==
  /\ Idle /\ pc[p] = "terminate"
  /\ subs' = IF ok THEN [subs EXCEPT ![arg[p]].st = "dead"] ELSE subs
  /\ Proceed(p, Kind(p), 2, 0, NoItems, session, client, cl,
             IF ok THEN "terminated" ELSE currentStatus)
  /\ UNCHANGED <<call, ret, connectOnStart, cmdQueue, isClosing, sess, items, msgs, pos,
                 micro, replayBuf, log, lossLeft>>

\* closeSession after its await: the session's 'session_closed' handler when
\* the call closed it, then node.session = null; the caller runs on
CloseSettles(p, ok) ==
  /\ Idle /\ pc[p] = "close"
  /\ ok => sess[arg[p]].st = "open"
  /\ sess' = IF ok THEN [sess EXCEPT ![arg[p]].st = "closed"] ELSE sess
  /\ LET h == SessionClosedHandler(ok) IN
       Proceed(p, Kind(p), 3, h.su, h.reg, 0, client, cl, h.st)
  /\ UNCHANGED <<call, ret, connectOnStart, cmdQueue, isClosing, subs, items, msgs, pos,
                 micro, replayBuf, log, lossLeft>>

\* disconnectClient after its await: when the call succeeded the client is
\* disconnected and its open sessions are closed by the protocol engine; then,
\* also after the catch, node.client = null
DisconnectSettles(p, ok) ==
  /\ Idle /\ pc[p] = "disconnect"
  /\ LET mine == IF ok THEN {s \in OpenSessions : sess[s].cl = arg[p]} ELSE {}
         h    == SessionClosedHandler(mine # {})
     IN /\ sess' = [s \in 1..MaxSessions |->
                      IF s \in mine THEN [sess[s] EXCEPT !.st = "closed"] ELSE sess[s]]
        /\ Proceed(p, Kind(p), 4, h.su, h.reg, h.se, 0,
                   IF ok THEN [cl EXCEPT ![arg[p]].st = "closed"] ELSE cl, h.st)
  /\ UNCHANGED <<call, ret, connectOnStart, cmdQueue, isClosing, subs, items, msgs, pos,
                 micro, replayBuf, log, lossLeft>>


\* the caller of initializeClient / connectAndCreateSession runs on to its
\* end: actionConnect and actionReconnect send their result and call done()
OwnerEnds(p) ==
  /\ pc' = [pc EXCEPT ![p] = "done"]
  /\ arg' = [arg EXCEPT ![p] = 0]
  /\ cb' = IF p \in MsgIds THEN [cb EXCEPT ![p] = "ok"] ELSE cb

\* initializeClient after `await certManager.initialize()`: the client is
\* created and, with connectOnStart, connectAndCreateSession starts
CertSettles(p) ==
  /\ Idle /\ pc[p] = "cert"
  /\ Used(cl, MaxClients) < MaxClients
  /\ LET c == FreeIn(cl, MaxClients) IN
     /\ cl' = [cl EXCEPT ![c] = [st |-> "idle", lis |-> TRUE]]
     /\ client' = c
     /\ IF connectOnStart
        THEN /\ currentStatus' = "connecting"
             /\ pc' = [pc EXCEPT ![p] = "connect"]
             /\ arg' = [arg EXCEPT ![p] = c]
             /\ cb' = cb
        ELSE /\ currentStatus' = "waiting"
             /\ OwnerEnds(p)
  /\ UNCHANGED <<call, ret, connectOnStart, session, subscription, monitoredItems, cmdQueue,
                 hasConnected, isClosing, sess, subs, items, msgs, pos, micro,
                 replayBuf, log, lossLeft>>

\* handleConnectionError, reached from the catch of initializeClient or of the
\* callers of connectAndCreateSession
ConnectFails(p) ==
  /\ currentStatus' = "error"
  /\ OwnerEnds(p)

\* a connectAndCreateSession whose failed connect clears node.hasConnected
ConnectSettlesForgets(p, ok) ==
  /\ Idle /\ pc[p] = "connect"
  /\ ok => cl[arg[p]].st \in {"idle", "up"}
  /\ cl' = IF ok THEN [cl EXCEPT ![arg[p]].st = "up"] ELSE cl
  /\ hasConnected' = ok
  /\ IF ok /\ client # 0
     THEN /\ currentStatus' = "connected"
          /\ pc' = [pc EXCEPT ![p] = "session"]
          /\ arg' = [arg EXCEPT ![p] = client]
          /\ cb' = cb
     ELSE ConnectFails(p)
  /\ UNCHANGED <<call, ret, connectOnStart, client, session, subscription, monitoredItems,
                 cmdQueue, isClosing, sess, subs, items, msgs, pos, micro,
                 replayBuf, log, lossLeft>>

\* connectAndCreateSession after `await node.client.connect(endpointUrl)`
ConnectSettles(p, ok) ==
  /\ Idle /\ pc[p] = "connect"
  /\ ok => cl[arg[p]].st \in {"idle", "up"}
  /\ cl' = IF ok THEN [cl EXCEPT ![arg[p]].st = "up"] ELSE cl
  /\ hasConnected' = (ok \/ hasConnected)
  /\ IF ok /\ client # 0
     THEN /\ currentStatus' = "connected"
          /\ pc' = [pc EXCEPT ![p] = "session"]
          /\ arg' = [arg EXCEPT ![p] = client]
          /\ cb' = cb
     ELSE ConnectFails(p)
  /\ UNCHANGED <<call, ret, connectOnStart, client, session, subscription, monitoredItems,
                 cmdQueue, isClosing, sess, subs, items, msgs, pos, micro,
                 replayBuf, log, lossLeft>>

\* replayCommandQueue: node.cmdQueue.splice(0), then the loop over `queued`
ReplayCommandQueue ==
  /\ replayBuf' = cmdQueue
  /\ cmdQueue' = <<>>

\* connectAndCreateSession after `await node.client.createSession(userIdentity)`
SessionSettles(p, ok) ==
  /\ Idle /\ pc[p] = "session"
  /\ ok => cl[arg[p]].st = "up" /\ Used(sess, MaxSessions) < MaxSessions
  /\ IF ok
     THEN /\ session' = FreeIn(sess, MaxSessions)
          /\ sess' = [sess EXCEPT ![FreeIn(sess, MaxSessions)] =
                        [st |-> "open", cl |-> arg[p], rec |-> FALSE]]
          /\ currentStatus' = "session active"
          /\ ReplayCommandQueue
          /\ OwnerEnds(p)
     ELSE /\ ConnectFails(p)
          /\ UNCHANGED <<session, sess, cmdQueue, replayBuf>>
  /\ UNCHANGED <<call, ret, connectOnStart, client, subscription, monitoredItems,
                 hasConnected, isClosing, cl, subs, items, msgs, pos, micro,
                 log, lossLeft>>

\* a call of connectAndCreateSession(), not awaited: a new invocation that runs
\* up to `await node.client.connect`
SpawnConnect ==
  IF client = 0
  THEN /\ currentStatus' = "error"
       /\ UNCHANGED <<pc, arg>>
  ELSE /\ HasSpawn
       /\ currentStatus' = "connecting"
       /\ pc' = [pc EXCEPT ![FreeSpawn] = "connect"]
       /\ arg' = [arg EXCEPT ![FreeSpawn] = client]

\* ------------------------------------------------- protocol-engine events
\* a 'connection_lost' handler that also discards the subscription and the
\* registry
ConnectionLostDiscards(c) ==
  /\ Idle /\ lossLeft > 0 /\ cl[c].st = "up"
  /\ lossLeft' = lossLeft - 1
  /\ cl' = [cl EXCEPT ![c].st = "lost"]
  /\ sess' = [s \in 1..MaxSessions |->
                IF sess[s].st = "open" /\ sess[s].cl = c
                THEN [sess[s] EXCEPT !.rec = TRUE] ELSE sess[s]]
  /\ currentStatus' = IF cl[c].lis /\ ~isClosing THEN "disconnected" ELSE currentStatus
  /\ subscription' = IF cl[c].lis /\ ~isClosing THEN 0 ELSE subscription
  /\ monitoredItems' = IF cl[c].lis /\ ~isClosing THEN NoItems ELSE monitoredItems
  /\ UNCHANGED <<call, ret, connectOnStart, client, session, cmdQueue, hasConnected,
                 isClosing, subs, items, runVars, cb, log>>

\* 'connection_lost' handler; the engine marks the client's sessions reconnecting
ConnectionLost(c) ==
  /\ Idle /\ lossLeft > 0 /\ cl[c].st = "up"
  /\ lossLeft' = lossLeft - 1
  /\ cl' = [cl EXCEPT ![c].st = "lost"]
  /\ sess' = [s \in 1..MaxSessions |->
                IF sess[s].st = "open" /\ sess[s].cl = c
                THEN [sess[s] EXCEPT !.rec = TRUE] ELSE sess[s]]
  /\ currentStatus' = IF cl[c].lis /\ ~isClosing THEN "disconnected" ELSE currentStatus
  /\ UNCHANGED <<call, ret, connectOnStart, client, session, subscription, monitoredItems,
                 cmdQueue, hasConnected, isClosing, subs, items, runVars, cb,
                 log>>

\* 'start_reconnection' handler
StartReconnection(c) ==
  /\ Idle /\ cl[c].st = "lost"
  /\ cl' = [cl EXCEPT ![c].st = "retry"]
  /\ currentStatus' = IF cl[c].lis /\ ~isClosing THEN "reconnecting" ELSE currentStatus
  /\ UNCHANGED <<call, ret, connectOnStart, client, session, subscription, monitoredItems,
                 cmdQueue, hasConnected, isClosing, sess, subs, items, runVars,
                 obsVars>>

\* 'connection_reestablished' handler; the engine has repaired the client's
\* open sessions
ConnectionReestablished(c) ==
  /\ Idle /\ cl[c].st = "retry"
  /\ cl' = [cl EXCEPT ![c].st = "up"]
  /\ sess' = [s \in 1..MaxSessions |->
                IF sess[s].cl = c THEN [sess[s] EXCEPT !.rec = FALSE] ELSE sess[s]]
  /\ IF cl[c].lis /\ ~isClosing
     THEN IF session = 0
          THEN SpawnConnect
          ELSE /\ currentStatus' = "re-established"
               /\ UNCHANGED <<pc, arg>>
     ELSE UNCHANGED <<currentStatus, pc, arg>>
  /\ log' = Append(log, [ev |-> "reestablished", m |-> c, key |-> "",
                         ready |-> TRUE])
  /\ UNCHANGED <<call, ret, connectOnStart, client, session, subscription, monitoredItems,
                 cmdQueue, hasConnected, isClosing, subs, items, msgs, pos, micro,
                 replayBuf, cb, lossLeft>>

\* a session is closed from outside the node (by the server, or because the
\* engine could not repair it): its 'session_closed' handler runs
SessionClosed(s) ==
  /\ Idle /\ sess[s].st = "open"
  /\ sess' = [sess EXCEPT ![s].st = "closed"]
  /\ LET h == SessionClosedHandler(TRUE) IN
     /\ session' = h.se
     /\ subscription' = h.su
     /\ monitoredItems' = h.reg
     /\ currentStatus' = h.st
  /\ UNCHANGED <<call, ret, connectOnStart, client, cmdQueue, hasConnected, isClosing, cl,
                 subs, items, runVars, obsVars>>

\* 'changed' handler of a monitored item (or of its group): one message on
\* output 1
Changed(i) ==
  /\ Idle /\ Live(i) /\ Len(Notified) < MaxNotif
  /\ log' = Append(log, [ev |-> "changed", m |-> i, key |-> items[i].key,
                         ready |-> TRUE])
  /\ currentStatus' = "value changed"
  /\ UNCHANGED <<call, ret, connectOnStart, client, session, subscription, monitoredItems,
                 cmdQueue, hasConnected, isClosing, libVars, runVars, cb,
                 lossLeft>>


\* ------------------------------------------------------ input and replay
\* routeAction: the handler of `action` runs up to its first await
RouteAction(m, action, its) ==
  CASE action = "read"               -> StartRead(m, its)
    [] action = "subscribe"          -> StartSubscribe(m, its)
    [] action = "unsubscribe"        -> StartUnsubscribe(m, its)
    [] action = "deletesubscription" -> StartDeleteSubscription(m)
    [] action = "connect"            -> StartConnect(m)
    [] action = "disconnect"         -> StartTeardown(m, action)
    [] action = "reconnect"          -> StartTeardown(m, action)

\* the record of a routeAction call of a non-control action
Routed(m, action, via) ==
  IF action \in ControlActions THEN log
  ELSE Append(log, [ev |-> via, m |-> m, key |-> action,
                    ready |-> Usable(session)])

\* messages so far that create objects, against the bounds of the model
Count(actions) == Cardinality({m \in 1..Len(msgs) : msgs[m].action \in actions})
ItemsNamed ==
  Cardinality({e \in (1..Len(msgs)) \X (1..MaxItems) :
                 msgs[e[1]].action = "subscribe" /\ e[2] <= Len(msgs[e[1]].items)})
WithinBounds(action, its) ==
  /\ action \in {"connect", "reconnect"} =>
       Count({"connect", "reconnect"}) + 1 < MaxClients
  /\ action = "subscribe" =>
       /\ Count({"subscribe"}) < MaxSubs
       /\ ItemsNamed + Len(its) <= MaxItems

\* node.on("input")
Input(action, its) ==
  /\ Idle /\ ~isClosing /\ Len(msgs) < MaxMsgs
  /\ WithinBounds(action, its)
  /\ msgs' = Append(msgs, [action |-> action, items |-> its])
  /\ LET m == Len(msgs) + 1 IN
     IF ShouldQueueMessage(action)
     THEN /\ cmdQueue' = Append(cmdQueue, m)
          /\ IF LazyConnect(action)
             THEN SpawnConnect
             ELSE UNCHANGED <<pc, arg, currentStatus>>
          /\ UNCHANGED <<client, session, subscription, monitoredItems,
                         hasConnected, cl, sess, subs, items, pos, micro, cb,
                         log>>
     ELSE /\ RouteAction(m, action, its)
          /\ log' = Routed(m, action, "input")
          /\ UNCHANGED cmdQueue
  /\ UNCHANGED <<call, ret, connectOnStart, isClosing, replayBuf, lossLeft>>

\* one turn of the loop of replayCommandQueue
ReplayNext ==
  /\ replayBuf # <<>>
  /\ LET m == Head(replayBuf) IN
     /\ RouteAction(m, msgs[m].action, msgs[m].items)
     /\ log' = Routed(m, msgs[m].action, "replay")
  /\ replayBuf' = Tail(replayBuf)
  /\ UNCHANGED <<call, ret, connectOnStart, cmdQueue, isClosing, msgs, lossLeft>>

\* -------------------------------------------------------- specifications
ItemLists == {<<"X">>}

\* the command queue and the connection supervisor: reads and connection
\* control, transport loss and session loss, node close
QueueActions == {"read", "connect", "disconnect", "reconnect"}

NextQueue ==
  \/ \E a \in QueueActions, its \in ItemLists : Input(a, its)
  \/ ReplayNext
  \/ NodeClose
  \/ \E m \in MsgIds, ok \in BOOLEAN : ReadSettles(m, ok)
  \/ \E p \in Procs, ok \in BOOLEAN : CloseSettles(p, ok)
  \/ \E p \in Procs, ok \in BOOLEAN : DisconnectSettles(p, ok)
  \/ \E p \in Procs : CertSettles(p)
  \/ \E p \in Procs, ok \in BOOLEAN : ConnectSettles(p, ok)
  \/ \E p \in Procs, ok \in BOOLEAN : SessionSettles(p, ok)
  \/ \E c \in 1..MaxClients : ConnectionLost(c)
  \/ \E c \in 1..MaxClients : StartReconnection(c)
  \/ \E c \in 1..MaxClients : ConnectionReestablished(c)
  \/ \E s \in 1..MaxSessions : SessionClosed(s)

SpecQueue == Init /\ [][NextQueue]_vars


\* the subscription registry: subscribe, unsubscribe and deletesubscription
\* with connection control, transport loss and session loss, change
\* notifications, node close
SubActions == {"subscribe", "unsubscribe", "deletesubscription", "connect",
               "disconnect"}

NextSub ==
  \/ \E a \in SubActions, its \in ItemLists : Input(a, its)
  \/ ReplayNext
  \/ NodeClose
  \/ \E m \in MsgIds : SubscribeResumes(m)
  \/ \E m \in MsgIds, ok \in BOOLEAN : UnsubscribeSettles(m, ok)
  \/ \E m \in MsgIds, ok \in BOOLEAN : DeleteSubscriptionSettles(m, ok)
  \/ \E p \in Procs, ok \in BOOLEAN : TerminateSettles(p, ok)
  \/ \E p \in Procs, ok \in BOOLEAN : CloseSettles(p, ok)
  \/ \E p \in Procs, ok \in BOOLEAN : DisconnectSettles(p, ok)
  \/ \E p \in Procs : CertSettles(p)
  \/ \E p \in Procs, ok \in BOOLEAN : ConnectSettles(p, ok)
  \/ \E p \in Procs, ok \in BOOLEAN : SessionSettles(p, ok)
  \/ \E c \in 1..MaxClients : ConnectionLost(c)
  \/ \E c \in 1..MaxClients : StartReconnection(c)
  \/ \E c \in 1..MaxClients : ConnectionReestablished(c)
  \/ \E s \in 1..MaxSessions : SessionClosed(s)
  \/ \E i \in 1..MaxItems : Changed(i)

SpecSub == Init /\ [][NextSub]_vars

\* reads over a connection that loses its transport, connect and
\* createSession succeeding: each pending call settles, the replay loop runs on, and the
\* protocol engine, once it lost the transport, goes on to re-establish it
NextFair ==
  \/ \E its \in ItemLists : Input("read", its)
  \/ ReplayNext
  \/ \E m \in MsgIds, ok \in BOOLEAN : ReadSettles(m, ok)
  \/ \E p \in Procs : CertSettles(p)
  \/ \E p \in Procs : ConnectSettles(p, TRUE)
  \/ \E p \in Procs : SessionSettles(p, TRUE)
  \/ \E c \in 1..MaxClients : ConnectionLost(c)
  \/ \E c \in 1..MaxClients : StartReconnection(c)
  \/ \E c \in 1..MaxClients : ConnectionReestablished(c)

Progress ==
  \/ ReplayNext
  \/ \E m \in MsgIds, ok \in BOOLEAN : ReadSettles(m, ok)
  \/ \E p \in Procs : CertSettles(p)
  \/ \E p \in Procs : ConnectSettles(p, TRUE)
  \/ \E p \in Procs : SessionSettles(p, TRUE)
  \/ \E c \in 1..MaxClients : StartReconnection(c)
  \/ \E c \in 1..MaxClients : ConnectionReestablished(c)

SpecFair == Init /\ [][NextFair]_vars /\ WF_vars(Progress)

\* subscribe messages that name one item or a group of items, unsubscribe
\* messages that name one item, change notifications
GroupLists == {<<"X">>, <<"Y">>, <<"X", "Y">>}

NextGroup ==
  \/ \E its \in GroupLists : Input("subscribe", its)
  \/ \E k \in Keys : Input("unsubscribe", <<k>>)
  \/ ReplayNext
  \/ \E m \in MsgIds : SubscribeResumes(m)
  \/ \E m \in MsgIds, ok \in BOOLEAN : UnsubscribeSettles(m, ok)
  \/ \E p \in Procs : CertSettles(p)
  \/ \E p \in Procs, ok \in BOOLEAN : ConnectSettles(p, ok)
  \/ \E p \in Procs, ok \in BOOLEAN : SessionSettles(p, ok)
  \/ \E i \in 1..MaxItems : Changed(i)

SpecGroup == Init /\ [][NextGroup]_vars

\* ----------------------------------------------------------------- claims
\* messages routed so far, in the order of their routeAction calls
RoutedIds == [i \in 1..Len(Routes) |-> Routes[i].m]

\* C1: commands queued while no usable session exists are routed in their
\* arrival order, each once, and no message that arrived later is routed
\* before one of them: the routed messages are in arrival order and every
\* message still waiting arrived after every routed one.
C1_FifoReplay ==
  /\ \A i, j \in 1..Len(RoutedIds) : i < j => RoutedIds[i] < RoutedIds[j]
  /\ \A i \in 1..Len(RoutedIds) :
       /\ \A q \in 1..Len(cmdQueue) : RoutedIds[i] < cmdQueue[q]
       /\ \A q \in 1..Len(replayBuf) : RoutedIds[i] < replayBuf[q]

\* C2: at most one session that has been created and not yet closed exists.
C2_OneLiveSession == Cardinality(OpenSessions) <= 1

\* a step in which process p, running a handler of `kinds`, completes
Completes(p, kinds) ==
  /\ pc[p] # "done" /\ pc'[p] = "done"
  /\ IF p = CloseId THEN "close" \in kinds
     ELSE p \in 1..Len(msgs') /\ msgs'[p].action \in kinds

\* C3: when a disconnect command or the node close completes, every command
\* that was in cmdQueue has had its callback invoked with a ConnectionClosed
\* failure and none remains queued.
C3_QueueFailedOnClose ==
  [][\A p \in MsgIds \cup {CloseId} :
       Completes(p, {"disconnect", "close"}) =>
         /\ cmdQueue' = <<>>
         /\ \A q \in 1..Len(cmdQueue) : cb'[cmdQueue[q]] = "closed"]_vars

\* C5: every handler of a non-control action, routed by the input handler or
\* by the replay, is invoked with node.session non-null and not reconnecting.
C5_HandlersHaveSession == \A i \in 1..Len(Routes) : Routes[i].ready

C5_Witness ==
  /\ \E i \in 1..Len(Routes) : Routes[i].ev = "replay"
  /\ \E i \in 1..Len(Routes) : Routes[i].ev = "input"
  /\ lossLeft < MaxLoss

\* C6: an incoming message is appended to cmdQueue, with no handler invoked,
\* exactly when its action is not a control action and the session is null or
\* reconnecting; otherwise its handler is invoked at once and cmdQueue is left
\* alone.
C6_QueueOrDispatch ==
  [][Len(msgs') = Len(msgs) + 1 =>
       LET m == Len(msgs')
           queue == msgs'[m].action \notin ControlActions /\ ~Usable(session)
       IN IF queue
          THEN cmdQueue' = Append(cmdQueue, m) /\ pc'[m] = "none" /\ log' = log
          ELSE cmdQueue' = cmdQueue /\ pc'[m] # "none"]_vars

C6_Witness ==
  /\ cmdQueue # <<>>
  /\ \E m \in 1..Len(msgs) :
       msgs[m].action \in ControlActions /\ pc[m] # "none" /\ m > Head(cmdQueue)


\* a subscription-mutating handler suspended at an await between its first
\* and its last access to node.subscription / node.monitoredItems
InRegistryRegion(m) ==
  /\ m \in 1..Len(msgs) /\ msgs[m].action \in SubMutating
  /\ pc[m] \in {"subscribe2", "unsubscribe", "deletesubscription"}

\* C7: subscription-mutating handlers are serialized: none of them runs while
\* another one is suspended between its first and last access to the registry.
C7_RegistrySerialized ==
  Cardinality({m \in MsgIds : InRegistryRegion(m)}) <= 1

\* a step in which the handler of 'connection_lost' or of 'start_reconnection'
\* ran for client c
TransportLossHandled(c) ==
  /\ cl[c].lis /\ ~isClosing
  /\ \/ cl[c].st = "up" /\ cl'[c].st = "lost"
     \/ cl[c].st = "lost" /\ cl'[c].st = "retry"

\* a step in which a 'session_closed' handler ran while the node was not closing
SessionClosedHandled ==
  /\ ~isClosing
  /\ \E s \in 1..MaxSessions : sess[s].st = "open" /\ sess'[s].st = "closed"

SubscribeOf(e, k) ==
  /\ e.ev \in {"input", "replay"} /\ e.key = "subscribe"
  /\ \E n \in 1..Len(msgs[e.m].items) : msgs[e.m].items[n] = k

ReconnectionStep ==
  \/ \E c \in 1..MaxClients : cl[c].st # cl'[c].st /\ cl'[c].st \in {"lost", "retry"}
  \/ \E c \in 1..MaxClients : cl[c].st = "retry" /\ cl'[c].st = "up"
  \/ \E p \in SpawnIds : pc[p] # pc'[p]

C10_SubscriptionOnSession ==
  subscription # 0 => session # 0 /\ subs[subscription].se = session


\* message m is waiting in cmdQueue / has been handed to routeAction
Queued(m)    == \E q \in 1..Len(cmdQueue) : cmdQueue[q] = m
WasRouted(m) == \E i \in 1..Len(Routes) : Routes[i].m = m

\* the transport has just been re-established
JustReestablished == log # <<>> /\ log[Len(log)].ev = "reestablished"

\* C4: every command that is in cmdQueue when the transport is re-established
\* is eventually handed to routeAction, without a connect command.
C4_QueuedEventuallyRouted ==
  \A m \in MsgIds : (Queued(m) /\ JustReestablished) ~> WasRouted(m)


\* monitored items created on subscription u and not terminated
LiveItemsOf(u) == {i \in 1..MaxItems : items[i].st = "live" /\ items[i].su = u}

\* C11: no two live monitored items of a live subscription share an item key.
C11_UniqueLiveKeys ==
  \A u \in 1..MaxSubs :
    subs[u].st = "live" =>
      \A i, j \in LiveItemsOf(u) : items[i].key = items[j].key => i = j


\* a step in which the subscribe handler of message m completes with done()
SubscribeCompletes(m) ==
  /\ m \in 1..Len(msgs) /\ msgs[m].action = "subscribe"
  /\ pc[m] = "subscribe2" /\ pc'[m] = "done" /\ cb'[m] = "ok"

\* C12: when a subscribe naming two or more items completes, each of its items
\* is registered under its key with a live monitored item of that key.
C12_GroupItemsRegistered ==
  [][\A m \in MsgIds :
       (SubscribeCompletes(m) /\ Len(msgs[m].items) >= 2) =>
         \A n \in 1..Len(msgs[m].items) :
           /\ monitoredItems'[msgs[m].items[n]] # 0
           /\ items'[monitoredItems'[msgs[m].items[n]]].key = msgs[m].items[n]
           /\ items'[monitoredItems'[msgs[m].items[n]]].st = "live"]_vars


\* a step in which the unsubscribe handler of message m completes with done()
UnsubscribeCompletes(m) ==
  /\ m \in 1..Len(msgs') /\ msgs'[m].action = "unsubscribe"
  /\ (m \in 1..Len(msgs) => pc[m] # "done") /\ pc'[m] = "done"

\* the terminate call awaited by message m settles with an error in this step
TerminateFails(m) ==
  /\ m \in 1..Len(msgs) /\ pc[m] = "unsubscribe"
  /\ items'[arg[m]].st = "live"

\* key k was named by a subscribe that completed with done()
Subscribed(k) ==
  \E s \in 1..Len(msgs) :
    /\ msgs[s].action = "subscribe" /\ pc[s] = "done" /\ cb[s] = "ok"
    /\ \E n \in 1..Len(msgs[s].items) : msgs[s].items[n] = k

\* C13: when an unsubscribe for a previously subscribed key K completes
\* without a terminate error, K is absent from node.monitoredItems and no
\* live monitored item of key K, on a live subscription of an open session, is
\* left to emit a change notification.
C13_UnsubscribeStopsNotifications ==
  [][\A m \in MsgIds :
       (UnsubscribeCompletes(m) /\ ~TerminateFails(m)) =>
         \A n \in 1..Len(msgs'[m].items) :
           LET k == msgs'[m].items[n] IN
           Subscribed(k) =>
             /\ monitoredItems'[k] = 0
             /\ \A i \in 1..MaxItems :
                  (/\ items'[i].st = "live"
                   /\ subs'[items'[i].su].st = "live"
                   /\ sess'[subs'[items'[i].su].se].st = "open")
                    => items'[i].key # k]_vars


\* a step in which an unsubscribe naming only keys that are not in the
\* registry is handed to routeAction
UnknownKeyUnsubscribe(m) ==
  /\ Len(log') > Len(log)
  /\ log'[Len(log) + 1].ev \in {"input", "replay"}
  /\ log'[Len(log) + 1].m = m /\ log'[Len(log) + 1].key = "unsubscribe"
  /\ \A n \in 1..Len(msgs'[m].items) : monitoredItems[msgs'[m].items[n]] = 0

\* the step of message m emits a warning
Warned(m) ==
  \E j \in (Len(log) + 1)..Len(log') : log'[j].ev = "warn" /\ log'[j].m = m

\* C14: an unsubscribe naming a key that is not in the registry raises no
\* error, leaves node.subscription and node.monitoredItems unchanged, and
\* emits a warning.
C14_UnknownKeyWarns ==
  [][\A m \in MsgIds :
       UnknownKeyUnsubscribe(m) =>
         /\ pc'[m] = "done" /\ cb'[m] = "ok"
         /\ UNCHANGED <<subscription, monitoredItems>>
         /\ Warned(m)]_vars


\* a step in which the subscribe handler of message m calls ensureSubscription
CallsEnsureSubscription(m) ==
  /\ m \in 1..Len(msgs') /\ msgs'[m].action = "subscribe"
  /\ pc[m] = "none" /\ pc'[m] = "subscribe2"

\* C15: ensureSubscription creates the subscription when there is none and is
\* a no-op otherwise: a call that finds node.subscription set creates no
\* ClientSubscription and leaves node.subscription as it is, so two
\* consecutive calls create exactly one.
C15_EnsureSubscriptionIdempotent ==
  [][\A m \in MsgIds :
       CallsEnsureSubscription(m) =>
         IF subscription # 0
         THEN subscription' = subscription /\ subs' = subs
         ELSE /\ subscription' # 0 /\ subs[subscription'].st = "none"
              /\ subs'[subscription'] = [st |-> "live", se |-> session]
              /\ \A u \in 1..MaxSubs : u # subscription' => subs'[u] = subs[u]]_vars

C15_Witness ==
  /\ Len(micro) = 2
  /\ \A n \in 1..2 : msgs[micro[n]].action = "subscribe" /\ pc[micro[n]] = "subscribe2"
  /\ subscription # 0 /\ Used(subs, MaxSubs) = 1


\* a step in which the terminateSubscription awaited by process p returns
TerminateSubscriptionReturns(p) ==
  \/ pc[p] = "deletesubscription" /\ pc'[p] = "done"
  \/ pc[p] = "terminate" /\ pc'[p] # "terminate"

\* a step in which a deletesubscription is handed to routeAction while no
\* subscription exists
DeleteWithoutSubscription(m) ==
  /\ subscription = 0
  /\ Len(log') > Len(log)
  /\ log'[Len(log) + 1].ev \in {"input", "replay"}
  /\ log'[Len(log) + 1].m = m /\ log'[Len(log) + 1].key = "deletesubscription"

\* C16: when terminateSubscription returns after its terminate call, settled
\* with or without error, node.subscription is null and node.monitoredItems
\* is empty; called with no subscription it changes neither, and creates and
\* terminates nothing.
C16_TerminateClears ==
  [][/\ \A p \in Procs :
          TerminateSubscriptionReturns(p) =>
            subscription' = 0 /\ monitoredItems' = NoItems
     /\ \A m \in MsgIds :
          DeleteWithoutSubscription(m) =>
            /\ UNCHANGED <<subscription, monitoredItems, subs, items>>
            /\ pc'[m] = "done"]_vars

\* a deletesubscription has completed although its terminate call failed: the
\* subscription is still live on the current session and the node forgot it
C16_Witness ==
  /\ \E m \in 1..Len(msgs) : msgs[m].action = "deletesubscription" /\ pc[m] = "done"
  /\ subscription = 0 /\ monitoredItems = NoItems
  /\ session # 0
  /\ \E u \in 1..MaxSubs : subs[u].st = "live" /\ subs[u].se = session


\* C17: when a disconnect command completes, its callback reports success and
\* node.client, node.session and node.subscription are null and
\* node.monitoredItems is empty, whatever the teardown calls did.
C17_DisconnectClearsAll ==
  [][\A m \in MsgIds :
       Completes(m, {"disconnect"}) =>
         /\ cb'[m] = "ok"
         /\ client' = 0 /\ session' = 0 /\ subscription' = 0
         /\ monitoredItems' = NoItems]_vars


\* a step in which the connect command m completes and reports 'Connected'
ConnectCompletes(m) == Completes(m, {"connect"}) /\ cb'[m] = "ok"

\* C18: when a connect command completes with success, node.session is
\* non-null and every command that was in cmdQueue has been handed to
\* routeAction; for every configuration, connectOnStart disabled included.
C18_ConnectGivesSession ==
  [][\A m \in MsgIds :
       ConnectCompletes(m) => session' # 0 /\ cmdQueue' = <<>>]_vars

\* a step in which the connect or the createSession awaited for the connect
\* command m fails
ConnectionFails(m) ==
  /\ m \in 1..Len(msgs) /\ msgs[m].action = "connect"
  /\ \/ pc[m] = "connect" /\ pc'[m] = "done"
     \/ pc[m] = "session" /\ pc'[m] = "done" /\ sess' = sess

\* C19: a connect command whose connect or createSession fails does not
\* report success to its caller.
C19_ConnectFailureReported ==
  [][\A m \in MsgIds : ConnectionFails(m) => cb'[m] # "ok"]_vars


\* C20: once the close handler has completed, node.session, node.client and
\* node.subscription are null, and from then on no client and no session is
\* created and no queued command is replayed.
C20_ClosedIsTerminal ==
  [][pc'[CloseId] = "done" =>
       /\ session' = 0 /\ client' = 0 /\ subscription' = 0
       /\ pc[CloseId] = "done" =>
            /\ Used(cl', MaxClients) = Used(cl, MaxClients)
            /\ Used(sess', MaxSessions) = Used(sess, MaxSessions)
            /\ Routes' = Routes]_vars


\* C21 as stated: once node.hasConnected is true it stays true.
C21_HasConnectedSticky == [][hasConnected => hasConnected']_vars

\* a step in which a reconnect command runs its three assignments after the
\* teardown: node.client = null, node.session = null, node.hasConnected = false
ReconnectResets ==
  \E m \in 1..Len(msgs') :
    /\ msgs'[m].action = "reconnect"
    /\ (m \in 1..Len(msgs) => pc[m] # "cert") /\ pc'[m] = "cert"

\* C21 amended: node.hasConnected, once true, stays true in every step except
\* the one in which a reconnect command, its teardown done, sets it to false.
C21_HasConnectedUntilReconnect ==
  [][(hasConnected /\ ~hasConnected') => ReconnectResets]_vars

\* a reconnect command has reset the flag of a node that had connected
C21_Witness ==
  /\ ~hasConnected
  /\ \E s \in 1..MaxSessions : sess[s].st # "none"
  /\ \E m \in 1..Len(msgs) : msgs[m].action = "reconnect" /\ pc[m] = "cert"


\* the reason codes of a state entered by assigning node.session or node.client
SessionOpenCodes   == {"session active"}
SessionGoneCodes   == {"session closed", "disconnected"}
ClientCreatedCodes == {"client created", "connecting", "waiting"}
ClientGoneCodes    == {"disconnected"}

\* C22: a step that changes node.session or node.client emits the status of
\* the state it enters: after it the last status sent on output 2 is the
\* reason code of the new state.
C22_TransitionsEmitStatus ==
  [][/\ (session' # session /\ session' # 0) => currentStatus' \in SessionOpenCodes
     /\ (session # 0 /\ session' = 0) => currentStatus' \in SessionGoneCodes
     /\ (client' # client /\ client' # 0) => currentStatus' \in ClientCreatedCodes
     /\ (client # 0 /\ client' = 0) => currentStatus' \in ClientGoneCodes]_vars


\* ---------------------------------------------------------------------
\* actionRead after session.read resolved: the per-item loop on output 1
\* and the batch message on output 3.  call holds the request's items
\* (their nodeIds), the data values the server returned (one per node
\* read, in request order) and the loop index; ret is what the handler
\* sent and called, in order.
\* ---------------------------------------------------------------------
MaxRead == 3

NodeIds     == {"X", "Y"}
StatusCodes == {"Good", "Bad"}
Values      == {0, 1}
DataValues  == [value : Values, statusCode : StatusCodes]

SeqsUpTo(S, n) == UNION {[1..k -> S] : k \in 1..n}

ReadCalls == {[fn |-> "read", items |-> its, dataValues |-> dvs, i |-> 1, done |-> FALSE] :
                its \in SeqsUpTo(NodeIds, MaxRead), dvs \in SeqsUpTo(DataValues, MaxRead)}

\* setStatus(key): a status message on output 2
StatusMsg(key) == [out |-> 2, status |-> key]

\* done() / done(err), written as output 0
DoneCall(failed) == [out |-> 0, err |-> failed]

\* itemMsg of the loop body, sent as send([itemMsg, null, null])
ReadItemMsgFirst(its, dvs, i) ==
  [out |-> 1, topic |-> its[i], payload |-> dvs[1].value, statusCode |-> dvs[1].statusCode]

ReadItemMsg(its, dvs, i) ==
  [out |-> 1, topic |-> its[i], payload |-> dvs[i].value, statusCode |-> dvs[i].statusCode]

\* batchMsg, sent as send([null, null, batchMsg])
ReadBatchMsg(its, dvs) ==
  [out |-> 3, topic |-> "read",
   items |-> [i \in 1..Len(its) |-> [nodeId |-> its[i], value |-> dvs[i].value,
                                      statusCode |-> dvs[i].statusCode]],
   payload |-> dvs]

InitRead ==
  /\ Constructed
  /\ call \in {c \in ReadCalls : Len(c.dataValues) = Len(c.items)}
  /\ ret = <<>>

\* for (let i = 0; i < dataValues.length; i++) send([itemMsg, null, null])
ReadSendItem ==
  /\ call.fn = "read" /\ ~call.done /\ call.i <= Len(call.dataValues)
  /\ ret' = Append(ret, ReadItemMsg(call.items, call.dataValues, call.i))
  /\ call' = [call EXCEPT !.i = @ + 1]
  /\ UNCHANGED <<nodeVars, libVars, runVars, obsVars>>

\* send([null, null, batchMsg]); setStatus("read done"); done()
ReadSendBatch ==
  /\ call.fn = "read" /\ ~call.done /\ call.i > Len(call.dataValues)
  /\ ret' = ret \o <<ReadBatchMsg(call.items, call.dataValues),
                     StatusMsg("read done"), DoneCall(FALSE)>>
  /\ call' = [call EXCEPT !.done = TRUE]
  /\ UNCHANGED <<nodeVars, libVars, runVars, obsVars>>

NextRead == ReadSendItem \/ ReadSendBatch
SpecRead == InitRead /\ [][NextRead]_vars

OnOutput(o) == SelectSeq(ret, LAMBDA e : e.out = o)

\* C23: a successful read of n >= 1 items has sent exactly n messages on
\* output 1, the i-th with the i-th item's nodeId and the i-th returned
\* value and status, and exactly one batch message on output 3 listing the
\* same n items in the same order.
C23_ReadOutputs ==
  (call.fn = "read" /\ call.done) =>
    LET n == Len(call.items) IN
    /\ Len(OnOutput(1)) = n
    /\ \A i \in 1..n :
         /\ OnOutput(1)[i].topic = call.items[i]
         /\ OnOutput(1)[i].payload = call.dataValues[i].value
         /\ OnOutput(1)[i].statusCode = call.dataValues[i].statusCode
    /\ Len(OnOutput(3)) = 1
    /\ Len(OnOutput(3)[1].items) = n
    /\ \A i \in 1..n :
         /\ OnOutput(3)[1].items[i].nodeId = call.items[i]
         /\ OnOutput(3)[1].items[i].value = call.dataValues[i].value
         /\ OnOutput(3)[1].items[i].statusCode = call.dataValues[i].statusCode

C23_Witness ==
  /\ call.fn = "read" /\ call.done /\ Len(call.items) = MaxRead
  /\ call.items[1] # call.items[2]
  /\ call.dataValues[1] # call.dataValues[2]


\* ---------------------------------------------------------------------
\* opcua-data-converter.js: coercion of the integer types, and actionWrite
\* followed by a read of the written node.
\*
\* A JavaScript Number is written [n |-> N, q |-> Q]: the value N + Q/4
\* with N its floor and Q in 0..3.  Integers are written in two limbs,
\* [h |-> H, l |-> L] for H * 2^16 + L with L in 0..2^16-1, because the
\* ranges of Int32 and UInt32 and the inputs beyond them do not fit
\* 32-bit integer arithmetic.  A declared type is written as its
\* base name and whether it carries the " Array" suffix.
\* ---------------------------------------------------------------------
MaxOff == 2

Limb == 2^16

Num(i)     == [h |-> i \div Limb, l |-> i % Limb]
Plus(a, d) == [h |-> a.h + ((a.l + d) \div Limb), l |-> (a.l + d) % Limb]
Less(a, b) == a.h < b.h \/ (a.h = b.h /\ a.l < b.l)

MathMin(a, b) == IF Less(b, a) THEN b ELSE a
MathMax(a, b) == IF Less(a, b) THEN b ELSE a

\* Math.round: floor(v + 1/2)
MathRound(v) == IF v.q >= 2 THEN Plus(v.n, 1) ELSE v.n

\* the truncation of ToInt8 .. ToUint32: toward zero
Truncate(v) == IF v.n.h < 0 /\ v.q > 0 THEN Plus(v.n, 1) ELSE v.n

ScalarIntTypes == {"SByte", "Int8", "Byte", "UInt8", "Int16", "UInt16", "Int32", "UInt32"}

\* TYPED_ARRAY_MAP and the encoding of the type: width in bits, signedness
Width(t)    == CASE t \in {"SByte", "Int8", "Byte", "UInt8"} -> 8
                 [] t \in {"Int16", "UInt16"} -> 16
                 [] t \in {"Int32", "UInt32"} -> 32
IsSigned(t) == t \in {"SByte", "Int8", "Int16", "Int32"}

\* the low w bits of an integer, as an unsigned number
Bits(w, a) == CASE w = 8  -> Num(a.l % 2^8)
                [] w = 16 -> Num(a.l)
                [] w = 32 -> [h |-> a.h % Limb, l |-> a.l]

\* w bits read as a number of type t
FromBits(t, r) ==
  IF ~IsSigned(t) THEN r
  ELSE CASE Width(t) = 8  -> IF r.l >= 2^7  THEN Num(r.l - 2^8)  ELSE r
         [] Width(t) = 16 -> IF r.l >= 2^15 THEN Num(r.l - 2^16) ELSE r
         [] Width(t) = 32 -> IF r.h >= 2^15 THEN [h |-> r.h - Limb, l |-> r.l] ELSE r

\* clampInt with the rounding only
ClampIntUnbounded(value, min, max) == MathRound(value)

\* clampInt (numeric arguments: the NaN branch is not taken)
ClampInt(value, min, max) ==
  LET num == MathRound(value) IN MathMax(min, MathMin(max, num))

\* coerceScalarValue, integer cases and default
CoerceScalarValue(datatype, value) ==
  CASE datatype.base \in {"Int8", "SByte"} -> ClampInt(value, Num(-128), Num(127))
    [] datatype.base \in {"Byte", "UInt8"} -> ClampInt(value, Num(0), Num(255))
    [] datatype.base = "Int16"  -> ClampInt(value, Num(-32768), Num(32767))
    [] datatype.base = "UInt16" -> ClampInt(value, Num(0), Num(65535))
    [] datatype.base = "Int32"  -> ClampInt(value, [h |-> -(2^15), l |-> 0], [h |-> 2^15 - 1, l |-> Limb - 1])
    [] datatype.base = "UInt32" -> ClampInt(value, Num(0), [h |-> Limb - 1, l |-> Limb - 1])
    [] OTHER -> value

\* parseToArray of a single value
ParseToArray(value) == <<value>>

\* coerceArrayValue for the types of TYPED_ARRAY_MAP:
\* TypedArrayCtor.from(items, (item) => Number(item))
CoerceArrayValue(datatype, value) ==
  LET its == ParseToArray(value) IN
  [i \in 1..Len(its) |-> FromBits(datatype.base, Bits(Width(datatype.base), Truncate(its[i])))]

IsArrayType(datatype) == datatype.array

\* buildVariant; buildDataValue wraps the variant
BuildVariant(datatype, value) ==
  IF IsArrayType(datatype)
  THEN [dataType |-> datatype.base, arrayType |-> "Array", value |-> CoerceArrayValue(datatype, value)]
  ELSE [dataType |-> datatype.base, arrayType |-> "Scalar", value |-> CoerceScalarValue(datatype, value)]

BuildDataValue(datatype, value) == [value |-> BuildVariant(datatype, value)]

\* the variant on the wire and back: every number in the bits of its type
Encode(variant) ==
  IF variant.arrayType = "Array"
  THEN [variant EXCEPT !.value = [i \in 1..Len(@) |-> Bits(Width(variant.dataType), @[i])]]
  ELSE [variant EXCEPT !.value = Bits(Width(variant.dataType), @)]

Decode(variant) ==
  IF variant.arrayType = "Array"
  THEN [variant EXCEPT !.value = [i \in 1..Len(@) |-> FromBits(variant.dataType, @[i])]]
  ELSE [variant EXCEPT !.value = FromBits(variant.dataType, @)]

\* inputs: numbers around the limits of the types, and 999999
Limits == {Num(0), Num(-128), Num(127), Num(255), Num(-32768), Num(32767), Num(65535),
           Num(999999), Num(-999999),
           [h |-> -(2^15), l |-> 0], [h |-> 2^15 - 1, l |-> Limb - 1],
           [h |-> Limb - 1, l |-> Limb - 1], [h |-> 2 * Limb, l |-> 0]}

Numbers   == {[n |-> Plus(p, d), q |-> f] : p \in Limits, d \in -MaxOff..MaxOff, f \in 0..3}
Datatypes == [base : ScalarIntTypes, array : BOOLEAN]

WriteCalls == {[fn |-> "write", datatype |-> t, value |-> v, stage |-> "build",
                sent |-> <<>>, stored |-> <<>>, status |-> "none"] :
                 t \in Datatypes, v \in Numbers}

InitWrite ==
  /\ Constructed
  /\ call \in WriteCalls
  /\ ret = <<>>

\* setStatus("writing"); writeValues = items.map(...buildDataValue...)
WriteBuild ==
  /\ call.fn = "write" /\ call.stage = "build"
  /\ call' = [call EXCEPT !.stage = "sent",
                          !.sent = BuildDataValue(call.datatype, call.value)]
  /\ ret' = Append(ret, StatusMsg("writing"))
  /\ UNCHANGED <<nodeVars, libVars, runVars, obsVars>>

\* statusCodes = await node.session.write(writeValues) resolves: the
\* server kept the value if it answers Good
WriteSettles(status) ==
  /\ call.fn = "write" /\ call.stage = "sent"
  /\ call' = [call EXCEPT !.stage = "written", !.status = status,
                          !.stored = IF status = "Good" THEN Encode(call.sent.value) ELSE @]
  /\ ret' = ret \o <<StatusMsg("value written"),
                     [out |-> 1, payload |-> <<status>>], DoneCall(FALSE)>>
  /\ UNCHANGED <<nodeVars, libVars, runVars, obsVars>>

\* a read of the written node: payload = dataValues[i].value?.value
ReadBack ==
  /\ call.fn = "write" /\ call.stage = "written" /\ call.status = "Good"
  /\ call' = [call EXCEPT !.stage = "read"]
  /\ ret' = Append(ret, [out |-> 1, payload |-> Decode(call.stored).value])
  /\ UNCHANGED <<nodeVars, libVars, runVars, obsVars>>

NextWrite == WriteBuild \/ (\E status \in StatusCodes : WriteSettles(status)) \/ ReadBack
SpecWrite == InitWrite /\ [][NextWrite]_vars

\* the range of an integer type, from its width and signedness
MinOf(t) == IF ~IsSigned(t) THEN Num(0)
            ELSE CASE Width(t) = 8  -> Num(-(2^7))
                   [] Width(t) = 16 -> Num(-(2^15))
                   [] Width(t) = 32 -> [h |-> -(2^15), l |-> 0]
MaxOf(t) == CASE Width(t) = 8  -> Num(IF IsSigned(t) THEN 2^7 - 1 ELSE 2^8 - 1)
              [] Width(t) = 16 -> Num(IF IsSigned(t) THEN 2^15 - 1 ELSE 2^16 - 1)
              [] Width(t) = 32 -> [h |-> IF IsSigned(t) THEN 2^15 - 1 ELSE Limb - 1, l |-> Limb - 1]

\* the integers nearest to a number (two of them at a half), and an
\* integer brought into the range of a type
Nearest(v) == {m \in {v.n, Plus(v.n, 1)} :
                 /\ m = v.n => v.q <= 2
                 /\ m = Plus(v.n, 1) => v.q >= 2}
Clamped(m, t) == IF Less(m, MinOf(t)) THEN MinOf(t)
                 ELSE IF Less(MaxOf(t), m) THEN MaxOf(t) ELSE m

\* C24: a write of declared scalar integer type T transmits round(v)
\* clamped into [min(T), max(T)], and then completes with the status the
\* server answered: one message on output 1 carrying it, and one call of
\* the completion callback without an error.
C24_WriteClamps ==
  (call.fn = "write" /\ ~call.datatype.array /\ call.stage # "build") =>
    /\ \E m \in Nearest(call.value) :
         call.sent.value.value = Clamped(m, call.datatype.base)
    /\ call.stage \in {"written", "read"} =>
         /\ OnOutput(1)[1].payload = <<call.status>>
         /\ OnOutput(0) = <<DoneCall(FALSE)>>

C24_Witness ==
  /\ call.fn = "write" /\ call.stage = "written" /\ call.status = "Good"
  /\ call.datatype = [base |-> "Int16", array |-> FALSE]
  /\ call.value = [n |-> Num(999999), q |-> 0]
  /\ call.sent.value.value = Num(32767)

\* C25: a read after a write of v with declared type T returns the coercion
\* of v to T: for an integer type v rounded and clamped into T's range,
\* for an array of an integer type every element so (rounded to a nearest
\* integer or toward zero).
C25_RoundTrip ==
  (call.fn = "write" /\ call.stage = "read") =>
    LET payload == ret[Len(ret)].payload
        t       == call.datatype.base IN
    IF call.datatype.array
    THEN \E m \in Nearest(call.value) \cup {Truncate(call.value)} :
           payload = <<Clamped(m, t)>>
    ELSE \E m \in Nearest(call.value) : payload = Clamped(m, t)


\* read and subscribe messages with one item or with none, over a
\* connection that is being made
EmptyLists == {<<>>, <<"X">>}

NextEmpty ==
  \/ \E a \in {"read", "subscribe"}, its \in EmptyLists : Input(a, its)
  \/ ReplayNext
  \/ \E m \in MsgIds, ok \in BOOLEAN : ReadSettles(m, ok)
  \/ \E m \in MsgIds : SubscribeResumes(m)
  \/ \E p \in Procs : CertSettles(p)
  \/ \E p \in Procs, ok \in BOOLEAN : ConnectSettles(p, ok)
  \/ \E p \in Procs, ok \in BOOLEAN : SessionSettles(p, ok)

SpecEmpty == Init /\ [][NextEmpty]_vars

\* a handler returns at its item check
EmptyRequestHandled == \E m \in MsgIds : cb[m] = "none" /\ cb'[m] = "empty"

\* C26: a read or subscribe request without items, routed with a usable
\* session, calls nothing on the session, creates no subscription, and is
\* reported on the status channel with a reason of its own, which is not
\* the one of a missing session.
C26_EmptyRequestReported ==
  [][EmptyRequestHandled =>
       /\ subs' = subs /\ subscription' = subscription /\ arg' = arg
       /\ currentStatus' = "no items"]_vars


\* the awaited session call of handler m fails in this step: session.read
\* rejects, monitoredItem.terminate() rejects, subscription.terminate() rejects
SessionOperationFails(m) ==
  \/ pc[m] = "op" /\ pc'[m] = "done" /\ currentStatus' = "read error"
  \/ pc[m] = "unsubscribe" /\ Len(log') = Len(log) + 1 /\ log'[Len(log')].ev = "warn"
  \/ /\ pc[m] = "deletesubscription" /\ pc'[m] = "done"
     /\ subs[arg[m]].st = "live" /\ subs'[arg[m]].st = "live"

ErrorCodes == {"read error", "write error", "subscription error", "error"}

\* C27: when the session call of a dispatched handler fails, that command
\* ends with the error given to its completion callback and an error status
\* is sent, and node.session, node.subscription, node.monitoredItems and
\* cmdQueue are as they were.
C27_FailureFailsOnlyCommand ==
  [][\A m \in MsgIds :
       SessionOperationFails(m) =>
         /\ pc'[m] = "done" /\ cb'[m] = "error"
         /\ currentStatus' \in ErrorCodes
         /\ UNCHANGED <<session, subscription, monitoredItems, cmdQueue>>]_vars


\* ---------------------------------------------------------------------
\* actionSubscribe after ensureSubscription and the 'changed' handlers:
\* the registration of the items of one request, individually or as a
\* group, and the messages sent for the data changes the protocol engine
\* delivers.  call holds the request (items, msg.interval and
\* msg.queueSize, 0 when absent), the monitoring parameters given to
\* the library and the data changes delivered so far.
\* ---------------------------------------------------------------------
NodeTime     == 10
NodeTimeUnit == "s"

\* toMilliseconds
ToMilliseconds(time, unit) ==
  time * (CASE unit = "ms" -> 1 [] unit = "s" -> 1000 [] unit = "m" -> 60000
            [] unit = "h" -> 3600000 [] OTHER -> 1000)

Intervals  == {0, 100}
QueueSizes == {0, 5}
Changes    == [value : Values, statusCode : StatusCodes, sourceTimestamp : {1, 2},
               sourcePicoseconds : {500}]

SubscribeCalls == {[fn |-> "subscribe", items |-> its, interval |-> iv, queueSize |-> qs,
                    stage |-> "start", monitoring |-> <<>>, delivered |-> <<>>] :
                     its \in GroupLists, iv \in Intervals, qs \in QueueSizes}

InitNotify ==
  /\ Constructed
  /\ call \in SubscribeCalls
  /\ ret = <<>>

\* the parameters of ClientMonitoredItem.create (one item) and of
\* ClientMonitoredItemGroup.create (several)
Monitoring(its, interval, queueSize) ==
  LET samplingInterval == IF interval # 0 THEN interval
                          ELSE ToMilliseconds(NodeTime, NodeTimeUnit) IN
  IF Len(its) = 1
  THEN [samplingInterval |-> samplingInterval, discardOldest |-> TRUE,
        queueSize |-> IF queueSize # 0 THEN queueSize ELSE 10]
  ELSE [samplingInterval |-> samplingInterval, discardOldest |-> TRUE, queueSize |-> 10]

\* outMsg of monitoredItem.on("changed")
ItemChangedMsg(item, dataValue) ==
  [out |-> 1, topic |-> item, browseName |-> item, payload |-> dataValue.value,
   statusCode |-> dataValue.statusCode, sourceTimestamp |-> dataValue.sourceTimestamp,
   sourcePicoseconds |-> dataValue.sourcePicoseconds]

\* outMsg of group.on("changed")
GroupChangedMsg(its, dataValue, index) ==
  [out |-> 1, topic |-> its[index], payload |-> dataValue.value,
   statusCode |-> dataValue.statusCode, sourceTimestamp |-> dataValue.sourceTimestamp]

\* node.send([outMsg, null, null]) put first
NodeSendFirst(sent, outMsg) == <<outMsg>> \o sent

\* node.send([outMsg, null, null])
NodeSend(sent, outMsg) == Append(sent, outMsg)

\* the items are created on the subscription; setStatus("subscribed"); done()
SubscribeItems ==
  /\ call.fn = "subscribe" /\ call.stage = "start"
  /\ call' = [call EXCEPT !.stage = "subscribed",
                          !.monitoring = Monitoring(call.items, call.interval, call.queueSize)]
  /\ UNCHANGED <<ret, nodeVars, libVars, runVars, obsVars>>

\* the engine delivers a data change of item `index`: the 'changed' handler
\* of the item, or of the group, runs
ChangedEvent(index, dataValue) ==
  /\ call.fn = "subscribe" /\ call.stage = "subscribed"
  /\ index \in 1..Len(call.items) /\ Len(call.delivered) < MaxNotif
  /\ call' = [call EXCEPT !.delivered = Append(@, [index |-> index, dataValue |-> dataValue])]
  /\ ret' = NodeSend(ret, IF Len(call.items) = 1
                           THEN ItemChangedMsg(call.items[1], dataValue)
                           ELSE GroupChangedMsg(call.items, dataValue, index))
  /\ UNCHANGED <<nodeVars, libVars, runVars, obsVars>>

NextNotify ==
  \/ SubscribeItems
  \/ \E index \in 1..MaxItems, dataValue \in Changes : ChangedEvent(index, dataValue)

SpecNotify == InitNotify /\ [][NextNotify]_vars

\* the data changes delivered for item k, and the messages sent for it
DeliveredFor(k) == SelectSeq(call.delivered, LAMBDA d : d.index = k)
SentFor(k)      == SelectSeq(ret, LAMBDA e : e.topic = call.items[k])

\* C28: for every monitored item the messages sent on output 1 are the data
\* changes the engine delivered for it, one message for each, in the order
\* of delivery, with their values and source timestamps.
C28_NotificationOrder ==
  call.fn = "subscribe" =>
    \A k \in 1..Len(call.items) :
      /\ Len(SentFor(k)) = Len(DeliveredFor(k))
      /\ \A j \in 1..Len(DeliveredFor(k)) :
           /\ SentFor(k)[j].payload = DeliveredFor(k)[j].dataValue.value
           /\ SentFor(k)[j].sourceTimestamp = DeliveredFor(k)[j].dataValue.sourceTimestamp

C28_Witness ==
  /\ call.fn = "subscribe" /\ Len(call.items) = 2
  /\ Len(DeliveredFor(2)) = 2
  /\ DeliveredFor(2)[1].dataValue.sourceTimestamp < DeliveredFor(2)[2].dataValue.sourceTimestamp
  /\ DeliveredFor(2)[1].dataValue.value # DeliveredFor(2)[2].dataValue.value
  /\ Len(SentFor(2)) = 2

\* C29: a request of several items is registered with the sampling interval
\* and the queue depth of the request, as a request of one item is, and the
\* message sent for a data change of an item is the one the handler of an
\* individually subscribed item sends: the same fields with the same values.
C29_GroupingNotObservable ==
  (call.fn = "subscribe" /\ call.stage = "subscribed") =>
    /\ call.monitoring.queueSize = (IF call.queueSize # 0 THEN call.queueSize ELSE 10)
    /\ call.monitoring.samplingInterval =
         (IF call.interval # 0 THEN call.interval ELSE ToMilliseconds(NodeTime, NodeTimeUnit))
    /\ \A j \in 1..Len(ret) :
         ret[j] = ItemChangedMsg(call.items[call.delivered[j].index],
                                 call.delivered[j].dataValue)


\* ---------------------------------------------------------------------
\* ensureSubscription over the requests of one connection: subscribe and
\* monitor call it for data, events calls it with forEvents, and
\* deletesubscription ends the subscription.  call.subscription holds the
\* parameters node.subscription was created with (<<>> for null), ret the
\* requests served and the subscription each was served by.
\* ---------------------------------------------------------------------
BuildSubscriptionParameters(publishingInterval) ==
  [requestedPublishingInterval |-> publishingInterval, requestedLifetimeCount |-> 60,
   requestedMaxKeepAliveCount |-> 10, maxNotificationsPerPublish |-> 10,
   publishingEnabled |-> TRUE, priority |-> 10]

BuildEventSubscriptionParameters(publishingInterval) ==
  [requestedPublishingInterval |-> publishingInterval, requestedLifetimeCount |-> 120,
   requestedMaxKeepAliveCount |-> 3, maxNotificationsPerPublish |-> 4,
   publishingEnabled |-> TRUE, priority |-> 1]

\* node.subscription after ensureSubscription(msg, forEvents)
SubscriptionAfterEnsure(current, msgInterval, forEvents) ==
  IF current # <<>> THEN current
  ELSE LET interval == IF msgInterval # 0 THEN msgInterval
                       ELSE ToMilliseconds(NodeTime, NodeTimeUnit) IN
       IF forEvents THEN BuildEventSubscriptionParameters(interval)
       ELSE BuildSubscriptionParameters(interval)

InitPreset ==
  /\ Constructed
  /\ call = [fn |-> "ensure", subscription |-> <<>>]
  /\ ret = <<>>

\* actionSubscribe, actionMonitor, actionEvents up to the items they create
ServeRequest(kind, msgInterval) ==
  /\ call.fn = "ensure" /\ Len(ret) < MaxMsgs
  /\ LET sub == SubscriptionAfterEnsure(call.subscription, msgInterval, kind = "events") IN
     /\ call' = [call EXCEPT !.subscription = sub]
     /\ ret' = Append(ret, [kind |-> kind, servedBy |-> sub])
  /\ UNCHANGED <<nodeVars, libVars, runVars, obsVars>>

\* actionDeleteSubscription: terminateSubscription
DeleteServed ==
  /\ call.fn = "ensure" /\ call.subscription # <<>>
  /\ call' = [call EXCEPT !.subscription = <<>>]
  /\ UNCHANGED <<ret, nodeVars, libVars, runVars, obsVars>>

NextPreset ==
  \/ \E kind \in {"subscribe", "monitor", "events"}, iv \in Intervals : ServeRequest(kind, iv)
  \/ DeleteServed

SpecPreset == InitPreset /\ [][NextPreset]_vars

\* the preset of a subscription: its parameters but the publishing interval
PresetOf(params) == [params EXCEPT !.requestedPublishingInterval = 0]

\* C30: every request was served by a subscription created with the preset
\* of its kind: the event preset for events, the data preset for subscribe
\* and monitor.
C30_PresetOfKind ==
  call.fn = "ensure" =>
    \A j \in 1..Len(ret) :
      PresetOf(ret[j].servedBy) =
        (IF ret[j].kind = "events" THEN BuildEventSubscriptionParameters(0)
         ELSE BuildSubscriptionParameters(0))


\* C38: for an integer type with a typed array, the element coerceArrayValue
\* yields for v is the number coerceScalarValue yields for v: v rounded and
\* clamped into the range of the type.
C38_ArrayCoercesAsScalar ==
  (call.fn = "write" /\ call.datatype.array /\ call.stage # "build") =>
    /\ call.sent.value.value = <<CoerceScalarValue(call.datatype, call.value)>>
    /\ \E m \in Nearest(call.value) :
         call.sent.value.value[1] = Clamped(m, call.datatype.base)


\* the 'session_closed' event of session s, raised by the protocol engine
\* outside any handler of the node
SessionClosedEvent(s) == sess[s].st = "open" /\ sess'[s].st = "closed" /\ pc' = pc

\* C35: a 'session_closed' event of a session that is not node.session
\* changes none of node.session, node.subscription and node.monitoredItems.
C35_StaleSessionClosedIgnored ==
  [][\A s \in 1..MaxSessions :
       (SessionClosedEvent(s) /\ session # s) =>
         UNCHANGED <<session, subscription, monitoredItems>>]_vars


\* the protocol engine ends subscription u (the server dropped it, or its
\* session went away): the 'terminated' handler registered by
\* ensureSubscription runs
Terminated(u) ==
  /\ Idle /\ subs[u].st = "live"
  /\ subs' = [subs EXCEPT ![u].st = "dead"]
  /\ currentStatus' = "terminated"
  /\ subscription' = 0
  /\ monitoredItems' = NoItems
  /\ UNCHANGED <<call, ret, connectOnStart, client, session, cmdQueue, hasConnected,
                 isClosing, cl, sess, items, runVars, obsVars>>

\* subscribe messages over a connection whose session is closed and made
\* again, and whose subscriptions the engine may end
NextStale ==
  \/ \E its \in ItemLists : Input("subscribe", its)
  \/ ReplayNext
  \/ \E m \in MsgIds : SubscribeResumes(m)
  \/ \E p \in Procs : CertSettles(p)
  \/ \E p \in Procs, ok \in BOOLEAN : ConnectSettles(p, ok)
  \/ \E p \in Procs, ok \in BOOLEAN : SessionSettles(p, ok)
  \/ \E c \in 1..MaxClients : ConnectionLost(c)
  \/ \E c \in 1..MaxClients : StartReconnection(c)
  \/ \E c \in 1..MaxClients : ConnectionReestablished(c)
  \/ \E s \in 1..MaxSessions : SessionClosed(s)
  \/ \E u \in 1..MaxSubs : Terminated(u)

SpecStale == Init /\ [][NextStale]_vars

\* the 'terminated' event of subscription u
TerminatedEvent(u) == subs[u].st = "live" /\ subs'[u].st = "dead" /\ pc' = pc

\* C36: a 'terminated' event of a subscription that is not node.subscription,
\* while the node has another one, leaves node.subscription and
\* node.monitoredItems as they are.
C36_StaleTerminatedIgnored ==
  [][\A u \in 1..MaxSubs :
       (TerminatedEvent(u) /\ subscription # 0 /\ subscription # u) =>
         UNCHANGED <<subscription, monitoredItems>>]_vars


\* a disconnect command has completed and no connect or reconnect command
\* arrived after it
DisconnectedFor(m) ==
  /\ msgs[m].action = "disconnect" /\ cb[m] = "ok"
  /\ \A n \in (m + 1)..Len(msgs) : msgs[n].action \notin {"connect", "reconnect"}

\* C37: once a disconnect command has completed and left the node, which is
\* not closing, without a client, node.session stays null until a later connect or reconnect
\* command: a connectAndCreateSession that was awaiting connect or
\* createSession at that time installs no session afterwards.
C37_NoSessionAfterDisconnect ==
  \A m \in 1..Len(msgs) : (DisconnectedFor(m) /\ client = 0 /\ ~isClosing) => session = 0


\* ---------------------------------------------------------------------
\* opcua-item and opcua-smart-item: the input handlers.  call holds the
\* configuration of the node and the incoming message, ret the messages
\* sent.  A message is a function from its property names.
\* ---------------------------------------------------------------------
NoType      == [base |-> "", array |-> FALSE]
ItemTypes   == {NoType, [base |-> "Int16", array |-> FALSE]}
ItemValues  == {[n |-> Num(5), q |-> 2], [n |-> Num(999999), q |-> 0]}
Descriptors == [nodeId : NodeIds, datatype : ItemTypes, browseName : {"", "B"}]
InMsgs      == {[action |-> "read"]} \cup {[action |-> "write", payload |-> v] : v \in ItemValues}

ItemCalls ==
  {[fn |-> "item", node |-> "opcua-item", items |-> <<d>>, value |-> v, msg |-> m, done |-> FALSE] :
     d \in Descriptors, v \in {<<>>} \cup ItemValues, m \in InMsgs}
  \cup
  {[fn |-> "item", node |-> "opcua-smart-item", items |-> ds, value |-> <<>>, msg |-> m, done |-> FALSE] :
     ds \in {<<>>} \cup SeqsUpTo(Descriptors, MaxItems), m \in InMsgs}

\* coerceValue of the item nodes
CoerceValue(datatype, value) ==
  IF datatype.base = "" THEN value
  ELSE IF IsArrayType(datatype) THEN CoerceArrayValue(datatype, value)
  ELSE CoerceScalarValue(datatype, value)

InitItems ==
  /\ Constructed
  /\ call \in ItemCalls
  /\ ret = <<>>

\* opcua-item: node.on("input")
ItemInput ==
  /\ call.fn = "item" /\ call.node = "opcua-item" /\ ~call.done
  /\ LET d    == call.items[1]
         base == [nodeId |-> d.nodeId, datatype |-> d.datatype, browseName |-> d.browseName]
         item == IF call.value # <<>>
                 THEN [nodeId |-> d.nodeId, datatype |-> d.datatype, browseName |-> d.browseName,
                       value |-> CoerceValue(d.datatype, call.value)]
                 ELSE base
     IN ret' = <<[items |-> <<item>>, topic |-> d.nodeId] @@ call.msg>>
  /\ call' = [call EXCEPT !.done = TRUE]
  /\ UNCHANGED <<nodeVars, libVars, runVars, obsVars>>

\* opcua-smart-item: node.on("input")
SmartItemInput ==
  /\ call.fn = "item" /\ call.node = "opcua-smart-item" /\ ~call.done
  /\ ret' = IF Len(call.items) = 0 THEN <<>>
            ELSE IF Len(call.items) = 1
            THEN LET d == call.items[1]
                     m == [topic |-> d.nodeId, datatype |-> d.datatype,
                           browseName |-> d.browseName] @@ call.msg
                 IN IF "payload" \in DOMAIN call.msg
                    THEN <<[payload |-> CoerceValue(d.datatype, call.msg.payload)] @@ m>>
                    ELSE <<m>>
            ELSE <<[topic |-> "multiple",
                    payload |-> [i \in 1..Len(call.items) |->
                                   [nodeId |-> call.items[i].nodeId,
                                    datatype |-> call.items[i].datatype,
                                    browseName |-> call.items[i].browseName]]] @@ call.msg>>
  /\ call' = [call EXCEPT !.done = TRUE]
  /\ UNCHANGED <<nodeVars, libVars, runVars, obsVars>>

NextItems == ItemInput \/ SmartItemInput
SpecItems == InitItems /\ [][NextItems]_vars

\* C32: every message an item node sends carries msg.items, a sequence with
\* one descriptor for every configured item, in the configured order.
C32_ItemsAlwaysArray ==
  call.fn = "item" =>
    \A j \in 1..Len(ret) :
      /\ "items" \in DOMAIN ret[j]
      /\ Len(ret[j].items) = Len(call.items)
      /\ \A i \in 1..Len(call.items) :
           /\ ret[j].items[i].nodeId = call.items[i].nodeId
           /\ ret[j].items[i].datatype = call.items[i].datatype
           /\ ret[j].items[i].browseName = call.items[i].browseName


\* ---------------------------------------------------------------------
\* opcua-method: the command queue and processQueue.  call holds the
\* closure state of one node (processing, cmdQueue), the processQueue
\* runs that have not returned, each at its await, and the status shown;
\* ret holds the sends (out 1) and the done callbacks (out 0) in order.
\* Commands are numbered in arrival order.
\* ---------------------------------------------------------------------
NoCmd == 0

MethodRun(at, hasClient, hasSession, cmd) ==
  [pc |-> at, client |-> hasClient, session |-> hasSession, cmd |-> cmd]

InitMethod ==
  /\ Constructed
  /\ call = [fn |-> "method", processing |-> FALSE, cmdQueue |-> <<>>, runs |-> <<>>,
             status |-> "idle", arrived |-> 0, closed |-> FALSE]
  /\ ret = <<>>

\* processQueue up to its first await; the caller has checked nothing else
ProcessQueueStarts(c) ==
  IF c.cmdQueue = <<>> THEN c
  ELSE [c EXCEPT !.processing = TRUE,
                 !.runs = Append(c.runs, MethodRun("initialize", FALSE, FALSE, NoCmd))]

\* the input handler calling processQueue whatever the processing flag says
InputAlwaysProcesses(c) == ProcessQueueStarts(c)

\* the tail of the input handler: if (!processing) await processQueue()
InputProcesses(c) == IF ~c.processing THEN ProcessQueueStarts(c) ELSE c

\* node.on("input")
MethodInput(valid) ==
  /\ call.fn = "method" /\ ~call.closed /\ call.arrived < MaxMsgs + 1
  /\ LET id == call.arrived + 1
         c  == [call EXCEPT !.arrived = id]
     IN IF ~valid
        THEN /\ call' = c
             /\ ret' = Append(ret, [out |-> 0, cmd |-> id, err |-> FALSE, by |-> "input"])
        ELSE /\ call' = InputProcesses([c EXCEPT !.cmdQueue = Append(c.cmdQueue, id)])
             /\ ret' = ret
  /\ UNCHANGED <<nodeVars, libVars, runVars, obsVars>>

\* the while loop of processQueue up to its next await
DrainNext(c, r) ==
  IF c.cmdQueue # <<>>
  THEN [c EXCEPT !.cmdQueue = Tail(c.cmdQueue),
                 !.runs[r].pc = "executeMethod",
                 !.runs[r].cmd = Head(c.cmdQueue)]
  ELSE [c EXCEPT !.status = "method executed",
                 !.runs[r].pc = "cleanup",
                 !.runs[r].cmd = NoCmd]

\* the catch block of processQueue: every queued command fails
FailQueued(q) == [i \in 1..Len(q) |-> [out |-> 0, cmd |-> q[i], err |-> TRUE, by |-> "catch"]]

ConnectionError(r) ==
  /\ call' = [call EXCEPT !.status = "error", !.cmdQueue = <<>>,
                          !.runs[r].pc = "cleanup", !.runs[r].cmd = NoCmd]
  /\ ret' = ret \o FailQueued(call.cmdQueue)

\* await certManager.initialize() settles
MethodCertSettles(r, ok) ==
  /\ call.fn = "method" /\ r \in DOMAIN call.runs /\ call.runs[r].pc = "initialize"
  /\ IF ok
     THEN /\ call' = [call EXCEPT !.status = "connecting", !.runs[r].pc = "connect",
                                  !.runs[r].client = TRUE]
          /\ ret' = ret
     ELSE ConnectionError(r)
  /\ UNCHANGED <<nodeVars, libVars, runVars, obsVars>>

\* await client.connect() settles
MethodConnectSettles(r, ok) ==
  /\ call.fn = "method" /\ r \in DOMAIN call.runs /\ call.runs[r].pc = "connect"
  /\ IF ok
     THEN /\ call' = [call EXCEPT !.runs[r].pc = "createSession"]
          /\ ret' = ret
     ELSE ConnectionError(r)
  /\ UNCHANGED <<nodeVars, libVars, runVars, obsVars>>

\* await client.createSession() settles
MethodSessionSettles(r, ok) ==
  /\ call.fn = "method" /\ r \in DOMAIN call.runs /\ call.runs[r].pc = "createSession"
  /\ IF ok
     THEN /\ call' = DrainNext([call EXCEPT !.status = "session active",
                                            !.runs[r].session = TRUE], r)
          /\ ret' = ret
     ELSE ConnectionError(r)
  /\ UNCHANGED <<nodeVars, libVars, runVars, obsVars>>

\* await executeMethod(session, cmd) settles: a result with status Good, a
\* result with another status, or an exception
ExecuteMethodSettles(r, outcome) ==
  /\ call.fn = "method" /\ r \in DOMAIN call.runs /\ call.runs[r].pc = "executeMethod"
  /\ LET cmd == call.runs[r].cmd
     IN CASE outcome = "Good" ->
               /\ call' = DrainNext([call EXCEPT !.status = "calling method"], r)
               /\ ret' = ret \o <<[out |-> 1, cmd |-> cmd],
                                  [out |-> 0, cmd |-> cmd, err |-> FALSE, by |-> "executeMethod"]>>
          [] outcome = "Bad" ->
               /\ call' = DrainNext([call EXCEPT !.status = "Bad"], r)
               /\ ret' = Append(ret, [out |-> 0, cmd |-> cmd, err |-> FALSE, by |-> "executeMethod"])
          [] OTHER ->
               /\ call' = DrainNext(call, r)
               /\ ret' = Append(ret, [out |-> 0, cmd |-> cmd, err |-> TRUE, by |-> "executeMethod"])
  /\ UNCHANGED <<nodeVars, libVars, runVars, obsVars>>

\* the finally block of processQueue once await cleanup() has settled; a
\* run that starts the next one only waits for it, and is dropped here
MethodCleanupSettles(r) ==
  /\ call.fn = "method" /\ r \in DOMAIN call.runs /\ call.runs[r].pc = "cleanup"
  /\ LET rest == [i \in 1..(Len(call.runs) - 1) |->
                    IF i < r THEN call.runs[i] ELSE call.runs[i + 1]]
     IN call' = ProcessQueueStarts([call EXCEPT !.processing = FALSE, !.runs = rest])
  /\ ret' = ret
  /\ UNCHANGED <<nodeVars, libVars, runVars, obsVars>>

\* node.on("close")
MethodClose ==
  /\ call.fn = "method" /\ ~call.closed
  /\ call' = [call EXCEPT !.cmdQueue = <<>>, !.status = "", !.closed = TRUE]
  /\ ret' = ret
  /\ UNCHANGED <<nodeVars, libVars, runVars, obsVars>>

MethodProgress ==
  \E r \in 1..(MaxMsgs + 1) :
    \/ \E ok \in BOOLEAN : MethodCertSettles(r, ok)
    \/ \E ok \in BOOLEAN : MethodConnectSettles(r, ok)
    \/ \E ok \in BOOLEAN : MethodSessionSettles(r, ok)
    \/ \E outcome \in {"Good", "Bad", "throws"} : ExecuteMethodSettles(r, outcome)
    \/ MethodCleanupSettles(r)

NextMethod ==
  \/ \E valid \in BOOLEAN : MethodInput(valid)
  \/ MethodProgress
  \/ MethodClose

SpecMethod == InitMethod /\ [][NextMethod]_vars
SpecMethodFair == SpecMethod /\ WF_vars(MethodProgress)

\* claim side
Accepted(c) ==
  /\ call.fn = "method" /\ c \in 1..call.arrived
  /\ \/ \E i \in 1..Len(call.cmdQueue) : call.cmdQueue[i] = c
     \/ \E r \in DOMAIN call.runs : call.runs[r].cmd = c
     \/ \E j \in 1..Len(ret) : ret[j].out = 0 /\ ret[j].cmd = c /\ ret[j].by # "input"
Completions(c) == Cardinality({j \in 1..Len(ret) : ret[j].out = 0 /\ ret[j].cmd = c})
Executed == SelectSeq(ret, LAMBDA o : o.out = 0 /\ o.by = "executeMethod")
Clients == {r \in DOMAIN call.runs : call.runs[r].client}
Sessions == {r \in DOMAIN call.runs : call.runs[r].session}

\* C33: the method node has at most one processQueue run, hence at most
\* one client and one session, at any time; it runs one method call at a
\* time, and calls complete in the order their commands arrived.
C33_SingleProcessQueue ==
  call.fn = "method" =>
    /\ Len(call.runs) <= 1
    /\ Cardinality(Clients) <= 1 /\ Cardinality(Sessions) <= 1
    /\ call.processing = (call.runs # <<>>)
    /\ \A i, j \in 1..Len(Executed) : i < j => Executed[i].cmd < Executed[j].cmd
    /\ \A r \in DOMAIN call.runs : \A j \in 1..Len(Executed) : 
         call.runs[r].cmd # NoCmd => Executed[j].cmd < call.runs[r].cmd

\* a command arrived while a run was at an await, and a later run served it
C33_Witness ==
  /\ call.fn = "method" /\ Len(Executed) = 2
  /\ \E r \in DOMAIN call.runs : call.runs[r].pc = "executeMethod" /\ call.runs[r].cmd = 3

\* C34: every command accepted into the queue of the method node has its
\* done callback called, and called once, whatever happens afterwards.
C34_AcceptedEventuallyDone ==
  \A c \in 1..(MaxMsgs + 1) : Accepted(c) ~> (Completions(c) = 1)


\* ---------------------------------------------------------------------
\* opcua-server: the server node.  call holds the fields of the node
\* (server, vendorName, currentFolder, initialized), the address space of
\* the server's engine, the position of startServer and of a restart at
\* their awaits, and the bindVariables commands awaiting their crawler;
\* ret holds what the last step sent and which done callbacks it called.
\* Servers are numbered as they are created; a node of an address space
\* is the pair of its server and its name.  The commands modelled are the
\* folder-scoped adds, setFolder, deleteNode, the alarm installers,
\* restartOPCUAServer, loadAddressSpace, bindVariables and the variable
\* update; a loaded nodeset file holds the folder F.  Each address-space call of the protocol library either
\* returns or throws (ok).
\* ---------------------------------------------------------------------
MaxServers == 3
NoNode     == [sp |-> 0, id |-> ""]
NodeNames  == {"V", "F", "X", "E", "L", "A", "M"}
VariableNames == {"X", "E", "A", "M"}
Targets    == {"", "V", "F", "X", "Q"}
FolderCommands ==
  {"addVariable", "addFolder", "addExtensionObject", "addFile", "setFolder",
   "installDiscreteAlarm", "installLimitAlarm"}
LifecycleCommands ==
  {"addVariable", "setFolder", "deleteNode", "restartOPCUAServer", "loadAddressSpace",
   "bindVariables", "Variable"}

\* the properties of the message each command reads: the node it names,
\* whether its topic or file is usable, whether the library call returns
ServerInputs(cmds) ==
  {i \in [cmd : cmds, id : Targets, valid : BOOLEAN, ok : BOOLEAN] :
     /\ i.cmd \notin {"setFolder", "deleteNode", "installDiscreteAlarm",
                      "installLimitAlarm", "Variable"} => i.id = ""
     /\ i.cmd \notin {"addVariable", "addExtensionObject", "addFile",
                      "loadAddressSpace"} => i.valid
     /\ i.cmd \in {"setFolder", "restartOPCUAServer", "loadAddressSpace",
                   "bindVariables", "Variable"} => i.ok}

InitServer ==
  /\ Constructed
  /\ \E cfg \in BOOLEAN :
       call = [fn |-> "server", constructDefaultAddressSpace |-> cfg,
               server |-> 0, vendorName |-> NoNode, currentFolder |-> NoNode,
               initialized |-> FALSE, loaded |-> FALSE,
               made |-> 0, engine |-> 0, space |-> {}, bound |-> {}, updated |-> {},
               pc |-> "certificates", restart |-> "none", binding |-> {}]
  /\ ret = <<>>

Completed(cmd, how, called) == [out |-> 0, cmd |-> cmd, how |-> how, called |-> called]
Sent(cmd) == [out |-> 1, cmd |-> cmd]
Handled(c, outputs) == [c |-> c, r |-> outputs]

\* addressSpace.findNode(nodeId)
FindNode(c, id) == IF id \in c.space THEN [sp |-> c.engine, id |-> id] ELSE NoNode

\* node.currentFolder || node.vendorName
ParentFolder(c) == IF c.currentFolder # NoNode THEN c.currentFolder ELSE c.vendorName

\* an add call of the address space: the node is added, or the call throws
AddNode(c, cmd, name, ok, sends) ==
  IF ok /\ name \notin c.space
  THEN Handled([c EXCEPT !.space = c.space \cup {name}],
               (IF sends THEN <<Sent(cmd)>> ELSE <<>>) \o <<Completed(cmd, "done", TRUE)>>)
  ELSE Handled(c, <<Completed(cmd, "error", TRUE)>>)

cmdAddVariable(c, valid, ok) ==
  IF ~valid \/ ParentFolder(c) = NoNode
  THEN Handled(c, <<Completed("addVariable", "warn", FALSE)>>)
  ELSE AddNode(c, "addVariable", "X", ok, TRUE)

cmdAddFolder(c, ok) ==
  IF ParentFolder(c) = NoNode
  THEN Handled(c, <<Completed("addFolder", "warn", FALSE)>>)
  ELSE AddNode(c, "addFolder", "F", ok, FALSE)

cmdAddExtensionObject(c, valid, ok) ==
  IF ~valid
  THEN Handled(c, <<Completed("addExtensionObject", "warn", FALSE)>>)
  ELSE AddNode(c, "addExtensionObject", "E", ok, FALSE)

cmdAddFile(c, valid, ok) ==
  IF ~valid
  THEN Handled(c, <<Completed("addFile", "warn", FALSE)>>)
  ELSE AddNode(c, "addFile", "L", ok, FALSE)

cmdSetFolder(c, id) ==
  IF id = "" \/ FindNode(c, id) = NoNode
  THEN Handled(c, <<Completed("setFolder", "warn", FALSE)>>)
  ELSE Handled([c EXCEPT !.currentFolder = FindNode(c, id)],
               <<Completed("setFolder", "done", FALSE)>>)

cmdDeleteNode(c, id, ok) ==
  IF id = "" \/ FindNode(c, id) = NoNode
  THEN Handled(c, <<Completed("deleteNode", "warn", FALSE)>>)
  ELSE IF ok
  THEN Handled([c EXCEPT !.space = c.space \ {id}, !.bound = c.bound \ {id},
                         !.updated = c.updated \ {id}],
               <<Completed("deleteNode", "done", TRUE)>>)
  ELSE Handled(c, <<Completed("deleteNode", "error", TRUE)>>)

cmdInstallDiscreteAlarm(c, id, ok) ==
  IF id = "" \/ FindNode(c, id) = NoNode
  THEN Handled(c, <<Completed("installDiscreteAlarm", "warn", FALSE)>>)
  ELSE AddNode(c, "installDiscreteAlarm", "A", ok, FALSE)

cmdInstallLimitAlarm(c, id, ok) ==
  IF id = "" \/ FindNode(c, id) = NoNode
  THEN Handled(c, <<Completed("installLimitAlarm", "warn", FALSE)>>)
  ELSE AddNode(c, "installLimitAlarm", "M", ok, FALSE)

\* one item of messageType "Variable"
handleVariableUpdates(c, id) ==
  IF FindNode(c, id) = NoNode
  THEN Handled(c, <<Completed("Variable", "warn", FALSE)>>)
  ELSE Handled([c EXCEPT !.updated = c.updated \cup {id}], <<Completed("Variable", "done", TRUE)>>)

\* cmdRestartServer up to await node.server.shutdown(10000)
cmdRestartServer(c) ==
  Handled([c EXCEPT !.initialized = FALSE,
                    !.restart = IF c.server # 0 THEN "shutdown" ELSE "start",
                    !.pc = IF c.server # 0 THEN c.pc ELSE "certificates"], <<>>)

cmdLoadAddressSpace(c, valid) ==
  IF ~valid
  THEN Handled(c, <<Completed("loadAddressSpace", "warn", FALSE)>>)
  ELSE cmdRestartServer([c EXCEPT !.loaded = TRUE])

\* cmdBindVariables up to await crawler.read()
cmdBindVariables(c) == Handled([c EXCEPT !.binding = c.binding \cup {c.engine}], <<>>)

handleCommand(c, cmd, id, valid, ok) ==
  CASE cmd = "addVariable"          -> cmdAddVariable(c, valid, ok)
    [] cmd = "addFolder"            -> cmdAddFolder(c, ok)
    [] cmd = "addExtensionObject"   -> cmdAddExtensionObject(c, valid, ok)
    [] cmd = "addFile"              -> cmdAddFile(c, valid, ok)
    [] cmd = "setFolder"            -> cmdSetFolder(c, id)
    [] cmd = "deleteNode"           -> cmdDeleteNode(c, id, ok)
    [] cmd = "installDiscreteAlarm" -> cmdInstallDiscreteAlarm(c, id, ok)
    [] cmd = "installLimitAlarm"    -> cmdInstallLimitAlarm(c, id, ok)
    [] cmd = "restartOPCUAServer"   -> cmdRestartServer(c)
    [] cmd = "loadAddressSpace"     -> cmdLoadAddressSpace(c, valid)
    [] cmd = "bindVariables"        -> cmdBindVariables(c)
    [] OTHER                        -> handleVariableUpdates(c, id)

\* node.on("input")
ServerInput(cmd, id, valid, ok) ==
  /\ call.fn = "server"
  /\ (call.initialized /\ cmd \in {"restartOPCUAServer", "loadAddressSpace"})
       => call.made < MaxServers
  /\ LET h == IF ~call.initialized \/ call.server = 0
              THEN Handled(call, <<Completed(cmd, "warn", FALSE)>>)
              ELSE handleCommand(call, cmd, id, valid, ok)
     IN call' = h.c /\ ret' = h.r
  /\ UNCHANGED <<nodeVars, libVars, runVars, obsVars>>

\* the catch block of startServer, and cmdRestartServer going on after it
StartFailed(c) ==
  /\ call' = [c EXCEPT !.pc = "none", !.restart = "none"]
  /\ ret' = IF c.restart = "start" THEN <<Completed("restartOPCUAServer", "done", FALSE)>> ELSE <<>>

\* startServer: both certificate managers have initialized
StartCertificatesSettle(ok) ==
  /\ call.fn = "server" /\ call.pc = "certificates"
  /\ IF ok
     THEN /\ call' = [call EXCEPT !.made = call.made + 1, !.server = call.made + 1,
                                  !.pc = "initialize"]
          /\ ret' = <<>>
     ELSE StartFailed(call)
  /\ UNCHANGED <<nodeVars, libVars, runVars, obsVars>>

\* constructDefaultAddressSpace
constructDefaultAddressSpace(c) ==
  [c EXCEPT !.space = c.space \cup {"V"},
            !.vendorName = [sp |-> c.engine, id |-> "V"],
            !.currentFolder = [sp |-> c.engine, id |-> "V"]]

\* startServer: await node.server.initialize() settles
StartInitializeSettles(ok) ==
  /\ call.fn = "server" /\ call.pc = "initialize"
  /\ IF ok
     THEN LET c == [call EXCEPT !.engine = call.server,
                                !.space = IF call.loaded THEN {"F"} ELSE {},
                                !.pc = "start"]
          IN /\ call' = IF c.constructDefaultAddressSpace
                        THEN constructDefaultAddressSpace(c) ELSE c
             /\ ret' = <<>>
     ELSE StartFailed(call)
  /\ UNCHANGED <<nodeVars, libVars, runVars, obsVars>>

\* startServer: await node.server.start() settles
StartStartSettles(ok) ==
  /\ call.fn = "server" /\ call.pc = "start"
  /\ IF ok
     THEN /\ call' = [call EXCEPT !.initialized = TRUE, !.pc = "none", !.restart = "none"]
          /\ ret' = IF call.restart = "start"
                    THEN <<Completed("restartOPCUAServer", "done", FALSE)>> ELSE <<>>
     ELSE StartFailed(call)
  /\ UNCHANGED <<nodeVars, libVars, runVars, obsVars>>

\* cmdRestartServer: await node.server.shutdown(10000) settles
RestartShutdownSettles(ok) ==
  /\ call.fn = "server" /\ call.restart = "shutdown"
  /\ IF ok
     THEN /\ call' = [call EXCEPT !.server = 0, !.vendorName = NoNode,
                                  !.engine = 0, !.space = {}, !.bound = {}, !.updated = {},
                                  !.restart = "start", !.pc = "certificates"]
          /\ ret' = <<>>
     ELSE /\ call' = [call EXCEPT !.restart = "none"]
          /\ ret' = <<Completed("restartOPCUAServer", "error", FALSE)>>
  /\ UNCHANGED <<nodeVars, libVars, runVars, obsVars>>

\* cmdBindVariables: await crawler.read() settles, for the address space e
\* the command took when it started
BindVariablesSettles(e, ok) ==
  /\ call.fn = "server" /\ e \in call.binding
  /\ IF ok
     THEN LET found == IF e = call.engine THEN call.space \cap VariableNames ELSE {}
          IN /\ call' = [call EXCEPT !.binding = call.binding \ {e},
                                     !.bound = call.bound \cup found]
             /\ ret' = <<Sent("bindVariables"), Completed("bindVariables", "done", found # {})>>
     ELSE /\ call' = [call EXCEPT !.binding = call.binding \ {e}]
          /\ ret' = <<Completed("bindVariables", "error", FALSE)>>
  /\ UNCHANGED <<nodeVars, libVars, runVars, obsVars>>

StartServerSettles ==
  \/ \E ok \in BOOLEAN : StartCertificatesSettle(ok)
  \/ \E ok \in BOOLEAN : StartInitializeSettles(ok)
  \/ \E ok \in BOOLEAN : StartStartSettles(ok)

\* the server node under the commands that add to the current folder
NextFolder ==
  \/ \E i \in ServerInputs(FolderCommands) : ServerInput(i.cmd, i.id, i.valid, i.ok)
  \/ StartServerSettles

SpecFolder == InitServer /\ [][NextFolder]_vars

\* the server node under the commands that replace or cut the address space
NextServer ==
  \/ \E i \in ServerInputs(LifecycleCommands) : ServerInput(i.cmd, i.id, i.valid, i.ok)
  \/ StartServerSettles
  \/ \E ok \in BOOLEAN : RestartShutdownSettles(ok)
  \/ \E e \in 1..(MaxServers + 1), ok \in BOOLEAN : BindVariablesSettles(e, ok)

SpecServer == InitServer /\ [][NextServer]_vars

\* claim side
InputOf(cmds) ==
  /\ call.fn = "server" /\ call.initialized /\ call.server # 0
  /\ ret' # <<>> /\ ret'[Len(ret')].cmd \in cmds
  /\ call'.binding = call.binding /\ call'.restart = "none"
WarnedOnly ==
  /\ ret' = <<Completed(ret'[1].cmd, "warn", FALSE)>>
  /\ call'.space = call.space

\* C31: a folder-scoped add while neither currentFolder nor vendorName is
\* set, and an alarm installation whose target node does not exist, call
\* nothing on the address space and complete with a warning.
C31_MissingParentOrTargetWarns ==
  [][/\ (/\ InputOf({"addVariable", "addFolder", "addExtensionObject", "addFile"})
         /\ ParentFolder(call) = NoNode) => WarnedOnly
     /\ (/\ InputOf({"installDiscreteAlarm", "installLimitAlarm"})
         /\ call.space \cap {"V", "F", "X"} = {}) => WarnedOnly]_vars

\* C39: while the server node is not initialized nothing is applied to an
\* address space on behalf of an input: the address space of the engine
\* keeps its nodes, bindings and values until it is disposed, and an input
\* only completes with a warning and leaves nothing waiting.
C39_UninitializedAppliesNothing ==
  [][(call.fn = "server" /\ ~call.initialized) =>
       /\ call.engine # 0 =>
            \/ call'.engine = 0
            \/ /\ call'.space = call.space
               /\ call'.bound = call.bound
               /\ call'.updated = call.updated
       /\ call'.binding \subseteq call.binding
       /\ \A j \in 1..Len(ret') :
            ret'[j].cmd \notin {"restartOPCUAServer", "loadAddressSpace", "bindVariables"}
              => ret'[j] = Completed(ret'[j].cmd, "warn", FALSE)]_vars

\* C40: while the server runs, a non-null currentFolder is a node of the
\* address space of the running server.
C40_CurrentFolderExists ==
  (call.fn = "server" /\ call.initialized /\ call.currentFolder # NoNode) =>
    /\ call.currentFolder.sp = call.engine
    /\ call.currentFolder.id \in call.space
====
